---- MODULE Spec2Model ----
(***************************************************************************)
(* Model of the mosaicod ingest pipeline: the metadata store tables, the   *)
(* object store, the action endpoint (sequence/topic lifecycle) and the    *)
(* put-data endpoint with its chunked writer.                              *)
(*                                                                         *)
(* Requests served by do_action are modelled as one step each (a completed *)
(* operation); a do_put upload is modelled step by step, one step per call *)
(* of do_put_topic_data to the repository or to the store, so that it      *)
(* interleaves with the other requests and can fail or be cancelled        *)
(* between any two of them.                                                *)
(*                                                                         *)
(* The query endpoint is modelled on a catalog of its own (SpecQuery), and *)
(* the filter builder and the clause compilers as functions of one         *)
(* operator (SpecCompile).                                                 *)
(***************************************************************************)
EXTENDS Integers, Sequences, FiniteSets, TLC

VARIABLES
    sequence_t,      \* rows of table sequence_t
    topic_t,         \* rows of table topic_t
    chunk_t,         \* rows of table chunk_t
    column_t,        \* rows of table column_t
    column_chunk_t,  \* rows of column_chunk_numeric_t / column_chunk_literal_t
    blobs,           \* object store: path -> bytes
    put,             \* the do_put upload in flight (one at a time)
    action,          \* the last request that returned
    response,        \* what it returned
    deleting,        \* the topic of the topic_delete in flight, once found
                     \* unlocked (<<>>: none)
    query,           \* the query request being served, or the operator of
                     \* one being converted or compiled
    server,          \* the server process: where run() stands, the signal
                     \* listener and the shutdown notifier
    layer_t,         \* rows of table layer_t
    chunked_writer,  \* a ChunkedWriter taken by itself, with the calls made
                     \* on it
    facade           \* the facade calls in flight when requests run
                     \* concurrently: one lock, one create, one delete

vars == <<sequence_t, topic_t, chunk_t, column_t, column_chunk_t, blobs,
          put, action, response, deleting, query, server, layer_t,
          chunked_writer, facade>>

repo_vars == <<sequence_t, topic_t, chunk_t, column_t, column_chunk_t>>

server_vars == <<server, layer_t>>

-----------------------------------------------------------------------------
(* Bounds *)

\* Maximum number of rows of chunk_t.
MaxChunks == 1

\* Maximum number of record batches one upload streams.
MaxBatches == 1

\* Maximum number of rows of a data file a query reads.
MaxRows == 2

\* The values of a column, and the numbers of a filter, are 1..MaxValue.
MaxValue == 2

-----------------------------------------------------------------------------
(* Names, keys, schemas, batches: the inputs of the requests *)

\* Resource names are strings, modelled as tuples of characters.
SeqS == <<"s">>
TopicSA == <<"s", "/", "a">>
TopicSB == <<"s", "/", "b">>

SeqNames == {SeqS}
TopicNames == {TopicSA, TopicSB}

\* More names, for the requests of the action endpoint taken alone: a second
\* sequence, a topic under it, a topic whose name continues the name of a
\* sequence without a separator, and a topic named like a sequence.
SeqT == <<"t">>
TopicTA == <<"t", "/", "a">>
TopicSXA == <<"s", "x", "/", "a">>

WideSeqNames == {SeqS, SeqT}
WideTopicNames == {TopicSA, TopicTA, TopicSXA, SeqS}

\* params::ARROW_SCHEMA_COLUMN_NAME_TIMESTAMP: the name for which check_schema
\* accepts the schema of tests::valid_schema_with_timestamp.
ARROW_SCHEMA_COLUMN_NAME_TIMESTAMP == "timestamp_ns"

\* Schemas a client may send: those of the tests of arrow.rs, one with a
\* timestamp column of another type, and one whose column is named `timestamp`.
SchemaValid == << [name |-> "timestamp_ns", data_type |-> "Int64"],
                  [name |-> "value", data_type |-> "Float64"] >>
SchemaMissing == << [name |-> "id", data_type |-> "UInt64"],
                    [name |-> "data", data_type |-> "Utf8"] >>
SchemaMisspelled == << [name |-> "TimeStAmP", data_type |-> "Int64"],
                       [name |-> "value", data_type |-> "Float64"] >>
SchemaWrongType == << [name |-> "timestamp_ns", data_type |-> "Float64"],
                      [name |-> "value", data_type |-> "Float64"] >>
SchemaTimestamp == << [name |-> "timestamp", data_type |-> "Int64"],
                      [name |-> "value", data_type |-> "Float64"] >>

Schemas == {SchemaValid, SchemaMissing, SchemaMisspelled, SchemaWrongType,
            SchemaTimestamp}

\* Record batches a client may stream.
Batches == {"b"}

OntologyTag == "sensor"

\* Option::None for the writer slot and for paths.
NoWriter == [some |-> FALSE, batches |-> <<>>]
NoPath == [dir |-> <<>>, file |-> <<>>]

-----------------------------------------------------------------------------
(* types/resources.rs *)

StartsWith(s, p) == Len(p) <= Len(s) /\ SubSeq(s, 1, Len(p)) = p

\* Resource::is_sub_resource
is_sub_resource(child, parent) == StartsWith(child, parent)

\* Resource::metadata: <name>/metadata.json
metadata_path(name) == [dir |-> name, file |-> <<"metadata.json">>]

\* Resource::datafile: <name>/data-NNNNN.<ext>
datafile(name, chunk_number) == [dir |-> name, file |-> <<"data", chunk_number>>]

\* The path segments of a name (split at '/').
RECURSIVE Segments(_)
Segments(name) ==
    IF name = <<>> THEN <<>>
    ELSE LET i == IF \E k \in 1..Len(name) : name[k] = "/"
                  THEN CHOOSE k \in 1..Len(name) :
                          /\ name[k] = "/"
                          /\ \A j \in 1..(k - 1) : name[j] # "/"
                  ELSE Len(name) + 1
         IN  IF i = 1 THEN Segments(SubSeq(name, 2, Len(name)))
             ELSE <<SubSeq(name, 1, i - 1)>> \o Segments(SubSeq(name, i + 1, Len(name)))

\* Objects listed by the object store under a prefix: the prefix matches
\* whole path segments.
UnderPrefix(path, prefix) ==
    StartsWith(Segments(path.dir) \o <<path.file>>, Segments(prefix))

-----------------------------------------------------------------------------
(* store.rs *)

\* Store::write_bytes
write_bytes(store, path, bytes) ==
    [p \in (DOMAIN store) \cup {path} |-> IF p = path THEN bytes ELSE store[p]]

\* Store::delete_recursive
delete_recursive(store, prefix) ==
    [p \in {q \in DOMAIN store : ~UnderPrefix(q, prefix)} |-> store[p]]

-----------------------------------------------------------------------------
(* arrow.rs *)

\* Schema::field_with_name: the fields with exactly that name, first one first
\* (empty when the lookup fails).
field_with_name(schema, name) == SelectSeq(schema, LAMBDA f : f.name = name)

\* check_schema without the test of the data type.
check_schema_any_type(schema) ==
    LET field == field_with_name(schema, ARROW_SCHEMA_COLUMN_NAME_TIMESTAMP)
    IN  IF field # <<>> THEN "ok" ELSE "missing_timestamp"

\* check_schema: "ok" or the SchemaError
check_schema(schema) ==
    LET field == field_with_name(schema, ARROW_SCHEMA_COLUMN_NAME_TIMESTAMP)
    IN  IF field # <<>>
        THEN IF "Int64" # field[1].data_type THEN "wrong_timestamp_type" ELSE "ok"
        ELSE "missing_timestamp"

\* is_numeric / is_literal: the kind of statistics of a data type.
stats_kind(data_type) ==
    IF data_type \in {"Int64", "UInt64", "Float64"} THEN "numeric"
    ELSE IF data_type \in {"Utf8"} THEN "literal"
    ELSE "unsupported"

\* column_stats_from_schema: the columns of a chunk and their statistics.
column_stats_from_schema(schema) ==
    {[field |-> schema[i].name, kind |-> stats_kind(schema[i].data_type)] :
        i \in 1..Len(schema)}

-----------------------------------------------------------------------------
(* repo/sql_models/pg_queries: the queries *)

\* SELECT * FROM sequence_t WHERE sequence_name=$1
sequence_find_by_locator(name) == {s \in sequence_t : s.sequence_name = name}

\* SELECT * FROM sequence_t WHERE sequence_uuid=$1
sequence_find_by_uuid(uuid) == {s \in sequence_t : s.sequence_uuid = uuid}

\* SELECT topic_name FROM topic_t JOIN sequence_t ... WHERE sequence_name=$1
sequence_find_all_topic_names(name) ==
    {t.topic_name : t \in {t \in topic_t :
        \E s \in sequence_t : /\ s.sequence_id = t.sequence_id
                              /\ s.sequence_name = name}}

\* SELECT * FROM topic_t WHERE topic_name=$1
topic_find_by_locator(name) == {t \in topic_t : t.topic_name = name}

\* UPDATE sequence_t SET locked = TRUE WHERE sequence_name = $1
sequence_lock(rows, name) ==
    {IF s.sequence_name = name THEN [s EXCEPT !.locked = TRUE] ELSE s : s \in rows}

\* topic_lock flipping the flag instead of setting it.
topic_lock_toggle(rows, name) ==
    {IF t.topic_name = name THEN [t EXCEPT !.locked = ~t.locked] ELSE t : t \in rows}

\* UPDATE topic_t SET locked = TRUE WHERE topic_name = $1
topic_lock(rows, name) ==
    {IF t.topic_name = name THEN [t EXCEPT !.locked = TRUE] ELSE t : t \in rows}

\* sequence_delete_unlocked with the test of the flag inverted.
sequence_delete_locked(rows, name) ==
    {s \in rows : ~(s.sequence_name = name /\ s.locked = TRUE)}

\* DELETE FROM sequence_t WHERE sequence_name=$1 AND locked=FALSE
sequence_delete_unlocked(rows, name) ==
    {s \in rows : ~(s.sequence_name = name /\ s.locked = FALSE)}

\* DELETE FROM topic_t WHERE topic_name=$1 AND locked=FALSE
topic_delete_unlocked(rows, name) ==
    {t \in rows : ~(t.topic_name = name /\ t.locked = FALSE)}

\* DELETE FROM topic_t WHERE topic_name=$1
topic_delete(rows, name) == {t \in rows : t.topic_name # name}

\* Rows removed with the row they reference (the foreign keys of the schema).
CascadeTopics(topics, sequences) ==
    {t \in topics : \E s \in sequences : s.sequence_id = t.sequence_id}

CascadeChunks(chunks, topics) ==
    {c \in chunks : \E t \in topics : t.topic_id = c.topic_id}

CascadeStats(stats, chunks) ==
    {r \in stats : \E c \in chunks : c.chunk_id = r.chunk_id}

-----------------------------------------------------------------------------
(* Initial state: empty stores, no upload in flight *)

\* Option::None and Option::Some.
None == [some |-> FALSE]
Some(v) == [some |-> TRUE, v |-> v]

\* The process before run() installs the signal listener: no signal is
\* pending, nothing waits on the shutdown notifier.
ServerNew == [pc |-> "new", pending |-> FALSE, waiters |-> FALSE,
              notified |-> FALSE, sigints |-> 0, starts |-> 1, tx |-> {}]

\* ChunkedWriter::new: no inner writer, no chunk serialized; no call was made
\* on it yet.
\* No facade call in flight.
CallIdle == [pc |-> "idle"]
FacadeIdle == [lock |-> CallIdle, create |-> CallIdle, delete |-> CallIdle]

ChunkedWriter_new ==
    [pc |-> "ready", writer |-> NoWriter, chunk_serialized_number |-> 0,
     path |-> NoPath, buffer |-> <<>>, since |-> <<>>, found |-> 0,
     callbacks |-> <<>>, on_chunk_created_clbk |-> FALSE]

PutIdle == [pc |-> "idle", name |-> <<>>, schema |-> <<>>, topic_id |-> 0,
            ontology_tag |-> "", writer |-> NoWriter,
            chunk_serialized_number |-> 0, path |-> NoPath]

Init ==
    /\ sequence_t = {}
    /\ topic_t = {}
    /\ chunk_t = {}
    /\ column_t = {}
    /\ column_chunk_t = {}
    /\ blobs = << >>
    /\ put = PutIdle
    /\ action = "none"
    /\ response = "none"
    /\ deleting = <<>>
    /\ query = None
    /\ server = ServerNew
    /\ layer_t = {}
    /\ chunked_writer = ChunkedWriter_new
    /\ facade = FacadeIdle

-----------------------------------------------------------------------------
(* repo/facades/facade_sequence.rs *)

\* The ids in use: those of the rows, the topic id the upload in flight
\* holds, and the id of a topic row inserted and not yet committed.
UsedIds ==
    {s.sequence_id : s \in sequence_t} \cup {t.topic_id : t \in topic_t}
        \cup {put.topic_id}
        \cup (IF facade.create.pc \in {"metadata", "commit"}
              THEN {facade.create.record.topic_id} ELSE {})

\* SERIAL / Uuid::new_v4: an id nothing in the system carries (ids are only
\* ever compared for equality).
NewId ==
    CHOOSE i \in 1..(Cardinality(UsedIds) + 1) :
        /\ i \notin UsedIds
        /\ \A j \in 1..(i - 1) : j \in UsedIds

\* The never issued uuid.
NoKey == 0

\* Keys a client may present: the uuids issued and in use, and one never
\* issued.
Keys ==
    {s.sequence_uuid : s \in sequence_t} \cup {t.topic_uuid : t \in topic_t}
        \cup {NoKey}

\* The keys presented where the key of a sequence is expected, and where the
\* key of a topic is expected: a uuid of the other kind is compared like the
\* never issued one, which stands for it.
SequenceKeys == {s.sequence_uuid : s \in sequence_t} \cup {NoKey}
TopicKeys == {t.topic_uuid : t \in topic_t} \cup {NoKey}

\* is_locked answering false whatever the row.
Locked_never(rows) == FALSE

\* SequenceRecord::is_locked / TopicRecord::is_locked of the row found
Locked(rows) == \E r \in rows : r.locked

\* FacadeSequence::create: insert the row, write metadata.json, commit.
FacadeSequence_create(name) ==
    /\ sequence_t' = sequence_t \cup
            {[sequence_id |-> NewId, sequence_uuid |-> NewId,
              sequence_name |-> name, locked |-> FALSE]}
    /\ blobs' = write_bytes(blobs, metadata_path(name), <<"sequence_metadata">>)
    /\ response' = "ok"
    /\ UNCHANGED <<topic_t, chunk_t, column_t, column_chunk_t>>

\* FacadeSequence::lock without the loop over the child topics.
FacadeSequence_lock_no_topic_check(name) ==
    /\ IF sequence_find_by_locator(name) = {}
       THEN /\ response' = "not_found"
            /\ UNCHANGED sequence_t
       ELSE IF Locked(sequence_find_by_locator(name))
       THEN /\ response' = "sequence_locked"
            /\ UNCHANGED sequence_t
       ELSE /\ sequence_t' = sequence_lock(sequence_t, name)
            /\ response' = "ok"
    /\ UNCHANGED <<topic_t, chunk_t, column_t, column_chunk_t, blobs>>

\* FacadeSequence::lock without the refusal of an already locked sequence.
FacadeSequence_lock_no_locked_check(name) ==
    /\ IF sequence_find_by_locator(name) = {}
       THEN /\ response' = "not_found"
            /\ UNCHANGED sequence_t
       ELSE IF \E topic_loc \in sequence_find_all_topic_names(name) :
                  ~Locked(topic_find_by_locator(topic_loc))
       THEN /\ response' = "topic_unlocked"
            /\ UNCHANGED sequence_t
       ELSE /\ sequence_t' = sequence_lock(sequence_t, name)
            /\ response' = "ok"
    /\ UNCHANGED <<topic_t, chunk_t, column_t, column_chunk_t, blobs>>

\* FacadeSequence::lock
FacadeSequence_lock(name) ==
    /\ IF sequence_find_by_locator(name) = {}
       THEN /\ response' = "not_found"
            /\ UNCHANGED sequence_t
       ELSE IF Locked(sequence_find_by_locator(name))
       THEN /\ response' = "sequence_locked"
            /\ UNCHANGED sequence_t
       ELSE IF \E topic_loc \in sequence_find_all_topic_names(name) :
                  ~Locked(topic_find_by_locator(topic_loc))
       THEN /\ response' = "topic_unlocked"
            /\ UNCHANGED sequence_t
       ELSE /\ sequence_t' = sequence_lock(sequence_t, name)
            /\ response' = "ok"
    /\ UNCHANGED <<topic_t, chunk_t, column_t, column_chunk_t, blobs>>

\* FacadeTopic::delete_unsafe applied to every topic of the list: the rows
\* go whatever their lock state, the blobs under each topic's path go too.
RECURSIVE delete_recursive_all(_, _)
delete_recursive_all(store, names) ==
    IF names = {} THEN store
    ELSE LET n == CHOOSE n \in names : TRUE
         IN  delete_recursive_all(delete_recursive(store, n), names \ {n})

RECURSIVE topic_delete_all(_, _)
topic_delete_all(rows, names) ==
    IF names = {} THEN rows
    ELSE LET n == CHOOSE n \in names : TRUE
         IN  topic_delete_all(topic_delete(rows, n), names \ {n})

\* FacadeSequence::delete
FacadeSequence_delete(name) ==
    /\ IF sequence_find_by_locator(name) = {}
       THEN /\ response' = "not_found"
            /\ UNCHANGED <<sequence_t, topic_t, chunk_t, column_chunk_t, blobs>>
       ELSE IF Locked(sequence_find_by_locator(name))
       THEN /\ response' = "sequence_locked"
            /\ UNCHANGED <<sequence_t, topic_t, chunk_t, column_chunk_t, blobs>>
       ELSE LET topics == sequence_find_all_topic_names(name)
                topics_left == topic_delete_all(topic_t, topics)
                sequences_left == sequence_delete_unlocked(sequence_t, name)
            IN  /\ sequence_t' = sequences_left
                /\ topic_t' = CascadeTopics(topics_left, sequences_left)
                /\ chunk_t' = CascadeChunks(chunk_t, topic_t')
                /\ column_chunk_t' = CascadeStats(column_chunk_t, chunk_t')
                /\ blobs' = delete_recursive(
                                delete_recursive_all(blobs, topics), name)
                /\ response' = "ok"
    /\ UNCHANGED column_t

\* FacadeSequence::delete returning an error. Every delete_unsafe runs and
\* commits in a transaction of its own, so the topics of `deleted` are gone
\* when the error comes; the transaction of delete itself is rolled back.
\* With topics left, it is the next delete_unsafe that failed; with none
\* left, sequence_delete_unlocked or delete_recursive failed. (A failing
\* commit, which comes after the blob subtree of the sequence was deleted,
\* is left out.)
FacadeSequence_delete_error(name, deleted) ==
    /\ sequence_find_by_locator(name) # {}
    /\ ~Locked(sequence_find_by_locator(name))
    /\ deleted \subseteq sequence_find_all_topic_names(name)
    /\ topic_t' = topic_delete_all(topic_t, deleted)
    /\ chunk_t' = CascadeChunks(chunk_t, topic_t')
    /\ column_chunk_t' = CascadeStats(column_chunk_t, chunk_t')
    /\ blobs' = delete_recursive_all(blobs, deleted)
    /\ response' = IF deleted = sequence_find_all_topic_names(name)
                   THEN "store_error" ELSE "repository_error"
    /\ UNCHANGED <<sequence_t, column_t>>

-----------------------------------------------------------------------------
(* repo/facades/facade_topic.rs *)

\* FacadeTopic::create without the test of the lock of the sequence.
FacadeTopic_create_no_locked_check(name, sequence) ==
    /\ IF sequence_find_by_uuid(sequence) = {}
       THEN /\ response' = "not_found"
            /\ UNCHANGED <<topic_t, blobs>>
       ELSE LET srecord == CHOOSE s \in sequence_find_by_uuid(sequence) : TRUE
            IN  IF ~is_sub_resource(name, srecord.sequence_name)
                THEN /\ response' = "unauthorized"
                     /\ UNCHANGED <<topic_t, blobs>>
                ELSE /\ topic_t' = topic_t \cup
                            {[topic_id |-> NewId, topic_uuid |-> NewId,
                              sequence_id |-> srecord.sequence_id,
                              topic_name |-> name, locked |-> FALSE]}
                     /\ blobs' = write_bytes(blobs, metadata_path(name),
                                             <<"topic_metadata", OntologyTag>>)
                     /\ response' = "ok"
    /\ UNCHANGED <<sequence_t, chunk_t, column_t, column_chunk_t>>

\* FacadeTopic::create
FacadeTopic_create(name, sequence) ==
    /\ IF sequence_find_by_uuid(sequence) = {}
       THEN /\ response' = "not_found"
            /\ UNCHANGED <<topic_t, blobs>>
       ELSE LET srecord == CHOOSE s \in sequence_find_by_uuid(sequence) : TRUE
            IN  IF srecord.locked
                THEN /\ response' = "sequence_locked"
                     /\ UNCHANGED <<topic_t, blobs>>
                ELSE IF ~is_sub_resource(name, srecord.sequence_name)
                THEN /\ response' = "unauthorized"
                     /\ UNCHANGED <<topic_t, blobs>>
                ELSE /\ topic_t' = topic_t \cup
                            {[topic_id |-> NewId, topic_uuid |-> NewId,
                              sequence_id |-> srecord.sequence_id,
                              topic_name |-> name, locked |-> FALSE]}
                     /\ blobs' = write_bytes(blobs, metadata_path(name),
                                             <<"topic_metadata", OntologyTag>>)
                     /\ response' = "ok"
    /\ UNCHANGED <<sequence_t, chunk_t, column_t, column_chunk_t>>

\* FacadeTopic::delete
FacadeTopic_delete(name) ==
    /\ topic_t' = topic_delete_unlocked(topic_t, name)
    /\ chunk_t' = CascadeChunks(chunk_t, topic_t')
    /\ column_chunk_t' = CascadeStats(column_chunk_t, chunk_t')
    /\ blobs' = delete_recursive(blobs, name)
    /\ response' = "ok"
    /\ UNCHANGED <<sequence_t, column_t>>

-----------------------------------------------------------------------------
(* server/endpoints/do_action.rs *)

Rejected(res) == response' = res /\ UNCHANGED <<repo_vars, blobs>>

\* ActionRequest::SequenceCreate without the test of handle.resource_id().
SequenceCreate_no_check(name) ==
    /\ action' = "sequence_create"
    /\ FacadeSequence_create(name)
    /\ UNCHANGED <<put, deleting, query, server_vars, chunked_writer, facade>>

\* ActionRequest::SequenceCreate
SequenceCreate(name) ==
    /\ action' = "sequence_create"
    /\ IF sequence_find_by_locator(name) # {}
       THEN Rejected("already_exists")
       ELSE FacadeSequence_create(name)
    /\ UNCHANGED <<put, deleting, query, server_vars, chunked_writer, facade>>

\* ActionRequest::SequenceDelete
SequenceDelete(name) ==
    /\ action' = "sequence_delete"
    /\ IF sequence_find_by_locator(name) = {}
       THEN Rejected("not_found")
       ELSE IF Locked(sequence_find_by_locator(name))
       THEN Rejected("sequence_locked")
       ELSE FacadeSequence_delete(name)
    /\ UNCHANGED <<put, deleting, query, server_vars, chunked_writer, facade>>

\* ActionRequest::SequenceAbort
SequenceAbort(name, key) ==
    /\ action' = "sequence_abort"
    /\ IF sequence_find_by_locator(name) = {}
       THEN Rejected("not_found")
       ELSE IF Locked(sequence_find_by_locator(name))
       THEN Rejected("sequence_locked")
       ELSE IF \A r \in sequence_find_by_locator(name) : r.sequence_uuid # key
       THEN Rejected("bad_key")
       ELSE FacadeSequence_delete(name)
    /\ UNCHANGED <<put, deleting, query, server_vars, chunked_writer, facade>>

\* ActionRequest::SequenceDelete, or ActionRequest::SequenceAbort with the
\* key of the sequence, and handle.delete() returning an error.
SequenceDeleteError(name, deleted) ==
    /\ FacadeSequence_delete_error(name, deleted)
    /\ action' \in {"sequence_delete", "sequence_abort"}
    /\ UNCHANGED <<put, deleting, query, server_vars, chunked_writer, facade>>

\* ActionRequest::SequenceFinalize
SequenceFinalize(name, key) ==
    /\ action' = "sequence_finalize"
    /\ IF sequence_find_by_locator(name) = {}
       THEN Rejected("not_found")
       ELSE IF \A r \in sequence_find_by_locator(name) : r.sequence_uuid # key
       THEN Rejected("bad_key")
       ELSE FacadeSequence_lock(name)
    /\ UNCHANGED <<put, deleting, query, server_vars, chunked_writer, facade>>

\* ActionRequest::TopicCreate
TopicCreate(name, sequence_key) ==
    /\ action' = "topic_create"
    /\ IF topic_find_by_locator(name) # {}
       THEN Rejected("already_exists")
       ELSE FacadeTopic_create(name, sequence_key)
    /\ UNCHANGED <<put, deleting, query, server_vars, chunked_writer, facade>>

\* ActionRequest::TopicDelete, with nothing between its test of
\* handle.is_locked() and handle.delete().
TopicDelete(name) ==
    /\ action' = "topic_delete"
    /\ IF topic_find_by_locator(name) = {}
       THEN Rejected("not_found")
       ELSE IF Locked(topic_find_by_locator(name))
       THEN Rejected("sequence_locked")
       ELSE FacadeTopic_delete(name)
    /\ UNCHANGED <<put, deleting, query, server_vars, chunked_writer, facade>>

\* ActionRequest::TopicDelete up to its test of handle.is_locked(): the
\* request returns an error, or goes on to handle.delete().
TopicDeleteCheck(name) ==
    /\ deleting = <<>>
    /\ IF topic_find_by_locator(name) = {}
       THEN action' = "topic_delete" /\ response' = "not_found"
                /\ UNCHANGED deleting
       ELSE IF Locked(topic_find_by_locator(name))
       THEN action' = "topic_delete" /\ response' = "sequence_locked"
                /\ UNCHANGED deleting
       ELSE deleting' = name /\ UNCHANGED <<action, response>>
    /\ UNCHANGED <<repo_vars, blobs, put, query, server_vars, chunked_writer, facade>>

\* ActionRequest::TopicDelete from handle.delete() on.
TopicDeleteRun ==
    /\ deleting # <<>>
    /\ action' = "topic_delete"
    /\ FacadeTopic_delete(deleting)
    /\ deleting' = <<>>
    /\ UNCHANGED <<put, query, server_vars, chunked_writer, facade>>

-----------------------------------------------------------------------------
(* server/endpoints/do_put.rs, rw/chunked_writer.rs, facade_chunk.rs *)

\* do_put returns: the upload is over, its outcome is the last response.
PutReturns(res) ==
    /\ put' = PutIdle
    /\ action' = "do_put"
    /\ response' = res

\* Errors of extract_command_and_schema_from_header_message (two of them
\* stand for all: none touches a store).
HeaderErrors == {"missing_header", "missing_schema"}

\* Protocol errors while the batches are consumed.
StreamErrors == {"duplicate_schema", "no_data"}

\* The other errors of the loop: the decoder fails, the writer rejects a
\* batch.
BatchErrors == {"stream_error", "writer_error"}

\* do_put: a request whose header message cannot be used.
PutHeaderError(err) ==
    /\ put.pc = "idle"
    /\ PutReturns(err)
    /\ UNCHANGED <<repo_vars, blobs>>
    /\ UNCHANGED <<deleting, query, server_vars, chunked_writer, facade>>

\* do_put_topic_data: check_schema refuses the schema of the header.
PutSchemaError(schema) ==
    /\ put.pc = "idle"
    /\ check_schema(schema) # "ok"
    /\ PutReturns(check_schema(schema))
    /\ UNCHANGED <<repo_vars, blobs>>
    /\ UNCHANGED <<deleting, query, server_vars, chunked_writer, facade>>

\* do_put with the received key never compared.
PutResourceId_no_key_check(name, key, schema) ==
    /\ put.pc = "idle"
    /\ check_schema(schema) = "ok"
    /\ IF topic_find_by_locator(name) = {}
       THEN PutReturns("not_found")
       ELSE LET r_id == CHOOSE t \in topic_find_by_locator(name) : TRUE
            IN  /\ put' = [PutIdle EXCEPT !.pc = "metadata", !.name = name,
                                          !.schema = schema,
                                          !.topic_id = r_id.topic_id]
                /\ UNCHANGED <<action, response>>
    /\ UNCHANGED <<repo_vars, blobs>>
    /\ UNCHANGED <<deleting, query, server_vars, chunked_writer, facade>>

\* do_put / do_put_topic_data through handle.resource_id(): the header is
\* decoded, its schema passes check_schema, the topic row is read and the
\* received key is matched with the topic uuid.
PutResourceId(name, key, schema) ==
    /\ put.pc = "idle"
    /\ check_schema(schema) = "ok"
    /\ IF topic_find_by_locator(name) = {}
       THEN PutReturns("not_found")
       ELSE LET r_id == CHOOSE t \in topic_find_by_locator(name) : TRUE
            IN  IF key # r_id.topic_uuid
                THEN PutReturns("bad_key")
                ELSE /\ put' = [PutIdle EXCEPT !.pc = "metadata", !.name = name,
                                               !.schema = schema,
                                               !.topic_id = r_id.topic_id]
                     /\ UNCHANGED <<action, response>>
    /\ UNCHANGED <<repo_vars, blobs>>
    /\ UNCHANGED <<deleting, query, server_vars, chunked_writer, facade>>

\* handle.metadata() and the construction of the writer
PutMetadata ==
    /\ put.pc = "metadata"
    /\ IF metadata_path(put.name) \notin DOMAIN blobs
       THEN PutReturns("store_error")
       ELSE /\ put' = [put EXCEPT
                         !.pc = "stream",
                         !.ontology_tag = blobs[metadata_path(put.name)][2]]
            /\ UNCHANGED <<action, response>>
    /\ UNCHANGED <<repo_vars, blobs>>
    /\ UNCHANGED <<deleting, query, server_vars, chunked_writer, facade>>

\* ChunkedWriter::write
ChunkedWriter_write(writer, batch) ==
    [some |-> TRUE, batches |-> Append(writer.batches, batch)]

\* The same with every batch stored as it is received.
PutBatch_stored(batch) ==
    /\ put.pc = "stream"
    /\ Len(put.writer.batches) < MaxBatches
    /\ put' = [put EXCEPT !.writer = ChunkedWriter_write(put.writer, batch)]
    /\ blobs' = write_bytes(blobs,
                    datafile(put.name, put.chunk_serialized_number),
                    Append(put.writer.batches, batch))
    /\ UNCHANGED <<repo_vars, action, response>>
    /\ UNCHANGED <<deleting, query, server_vars, chunked_writer, facade>>

\* The loop of do_put_topic_data receives a record batch.
PutBatch(batch) ==
    /\ put.pc = "stream"
    /\ Len(put.writer.batches) < MaxBatches
    /\ put' = [put EXCEPT !.writer = ChunkedWriter_write(put.writer, batch)]
    /\ UNCHANGED <<repo_vars, blobs, action, response>>
    /\ UNCHANGED <<deleting, query, server_vars, chunked_writer, facade>>

\* The loop of do_put_topic_data fails: decoder error, duplicate schema,
\* empty payload, or writer.write(&batch) returns an error.
PutStreamError(err) ==
    /\ put.pc = "stream"
    /\ PutReturns(err)
    /\ UNCHANGED <<repo_vars, blobs>>
    /\ UNCHANGED <<deleting, query, server_vars, chunked_writer, facade>>

\* End of stream with the topic locked before the writer is finalized.
PutEndOfStream_lock_first ==
    /\ put.pc = "stream"
    /\ IF put.writer.some
       THEN LET path == datafile(put.name, put.chunk_serialized_number)
            IN  /\ blobs' = write_bytes(blobs, path, put.writer.batches)
                /\ put' = [put EXCEPT
                             !.pc = "callback",
                             !.path = path,
                             !.chunk_serialized_number =
                                    put.chunk_serialized_number + 1,
                             !.writer = NoWriter]
       ELSE /\ put' = [put EXCEPT !.pc = "lock"]
            /\ UNCHANGED blobs
    /\ topic_t' = topic_lock(topic_t, put.name)
    /\ UNCHANGED <<sequence_t, chunk_t, column_t, column_chunk_t, action,
                   response>>
    /\ UNCHANGED <<deleting, query, server_vars, chunked_writer, facade>>

\* End of stream with the chunk counter incremented before the path of the
\* chunk is formatted.
PutEndOfStream_count_first ==
    /\ put.pc = "stream"
    /\ IF put.writer.some
       THEN LET path == datafile(put.name, put.chunk_serialized_number + 1)
            IN  /\ blobs' = write_bytes(blobs, path, put.writer.batches)
                /\ put' = [put EXCEPT
                             !.pc = "callback",
                             !.path = path,
                             !.chunk_serialized_number =
                                    put.chunk_serialized_number + 1,
                             !.writer = NoWriter]
       ELSE /\ put' = [put EXCEPT !.pc = "lock"]
            /\ UNCHANGED blobs
    /\ UNCHANGED <<repo_vars, action, response>>
    /\ UNCHANGED <<deleting, query, server_vars, chunked_writer, facade>>

\* End of stream, and ChunkedWriter::finalize through write_to_path: the
\* chunk takes the next serial number and its blob is written.
PutEndOfStream ==
    /\ put.pc = "stream"
    /\ IF put.writer.some
       THEN LET path == datafile(put.name, put.chunk_serialized_number)
            IN  /\ blobs' = write_bytes(blobs, path, put.writer.batches)
                /\ put' = [put EXCEPT
                             !.pc = "callback",
                             !.path = path,
                             !.chunk_serialized_number =
                                    put.chunk_serialized_number + 1,
                             !.writer = NoWriter]
       ELSE /\ put' = [put EXCEPT !.pc = "lock"]
            /\ UNCHANGED blobs
    /\ UNCHANGED <<repo_vars, action, response>>
    /\ UNCHANGED <<deleting, query, server_vars, chunked_writer, facade>>

\* chunk_id SERIAL: an id no row of chunk_t carries.
NewChunkId ==
    CHOOSE i \in 1..(Cardinality(chunk_t) + 1) :
        /\ \A c \in chunk_t : c.chunk_id # i
        /\ \A j \in 1..(i - 1) : \E c \in chunk_t : c.chunk_id = j

\* The chunk row can only reference an existing topic row.
FkTopicExists(topic_id) == \E t \in topic_t : t.topic_id = topic_id

\* FacadeChunk::push_stats for every column: the statistics rows of a chunk.
push_stats(chunk_id, ontology_tag, cstats) ==
    {[column_name |-> c.field, ontology_tag |-> ontology_tag,
      chunk_id |-> chunk_id, kind |-> c.kind] :
        c \in {c \in cstats : c.kind # "unsupported"}}

\* on_chunk_created: FacadeChunk::create, push_stats, finalize (commit).
PutChunkCreated ==
    /\ put.pc = "callback"
    /\ Cardinality(chunk_t) < MaxChunks
    /\ IF FkTopicExists(put.topic_id)
       THEN LET chunk_id == NewChunkId
                rows == push_stats(chunk_id, put.ontology_tag,
                                   column_stats_from_schema(put.schema))
            IN  /\ chunk_t' = chunk_t \cup
                        {[chunk_id |-> chunk_id, topic_id |-> put.topic_id,
                          data_file |-> put.path]}
                /\ column_t' = column_t \cup
                        {[column_name |-> r.column_name,
                          ontology_tag |-> r.ontology_tag] : r \in rows}
                /\ column_chunk_t' = column_chunk_t \cup rows
                /\ put' = [put EXCEPT !.pc = "lock"]
                /\ UNCHANGED <<action, response>>
       ELSE /\ PutReturns("repository_error")
            /\ UNCHANGED <<chunk_t, column_t, column_chunk_t>>
    /\ UNCHANGED <<sequence_t, topic_t, blobs>>
    /\ UNCHANGED <<deleting, query, server_vars, chunked_writer, facade>>

\* FacadeTopic::lock, then do_put_topic_data returns Ok.
PutLock ==
    /\ put.pc = "lock"
    /\ topic_t' = topic_lock(topic_t, put.name)
    /\ PutReturns("ok")
    /\ UNCHANGED <<sequence_t, chunk_t, column_t, column_chunk_t, blobs>>
    /\ UNCHANGED <<deleting, query, server_vars, chunked_writer, facade>>

\* The same with the chunk row committed on its own, before the
\* statistics: a failure of the callback leaves the chunk row behind.
PutIoError_chunk_committed ==
    /\ PutReturns(IF put.pc \in {"metadata", "stream"}
                  THEN "store_error" ELSE "repository_error")
    /\ IF put.pc = "callback" /\ FkTopicExists(put.topic_id)
            /\ Cardinality(chunk_t) < MaxChunks
       THEN chunk_t' = chunk_t \cup
                {[chunk_id |-> NewChunkId, topic_id |-> put.topic_id,
                  data_file |-> put.path]}
       ELSE UNCHANGED chunk_t
    /\ UNCHANGED <<sequence_t, topic_t, column_t, column_chunk_t, blobs>>
    /\ UNCHANGED <<deleting, query, server_vars, chunked_writer, facade>>

\* The repository or store call the upload is about to make returns an
\* error: its transaction is rolled back and do_put returns the error.
PutIoError ==
    /\ PutReturns(IF put.pc \in {"metadata", "stream"}
                  THEN "store_error" ELSE "repository_error")
    /\ UNCHANGED <<repo_vars, blobs>>
    /\ UNCHANGED <<deleting, query, server_vars, chunked_writer, facade>>

\* The request is dropped at a suspension point (client gone, shutdown).
PutCancel ==
    /\ put.pc # "idle"
    /\ PutReturns("cancelled")
    /\ UNCHANGED <<repo_vars, blobs>>
    /\ UNCHANGED <<deleting, query, server_vars, chunked_writer, facade>>

-----------------------------------------------------------------------------
(* The specification *)

Next ==
    \/ \E name \in SeqNames : SequenceCreate(name)
    \/ \E name \in SeqNames : SequenceDelete(name)
    \/ \E name \in SeqNames, key \in SequenceKeys : SequenceAbort(name, key)
    \/ \E name \in SeqNames, key \in SequenceKeys : SequenceFinalize(name, key)
    \/ \E name \in SeqNames, deleted \in SUBSET TopicNames :
            SequenceDeleteError(name, deleted)
    \/ \E name \in TopicNames, key \in SequenceKeys : TopicCreate(name, key)
    \/ \E name \in TopicNames : TopicDelete(name)
    \/ \E err \in HeaderErrors : PutHeaderError(err)
    \/ \E schema \in Schemas : PutSchemaError(schema)
    \/ \E name \in TopicNames, key \in TopicKeys, schema \in Schemas :
            PutResourceId(name, key, schema)
    \/ PutMetadata
    \/ \E batch \in Batches : PutBatch(batch)
    \/ \E err \in StreamErrors : PutStreamError(err)
    \/ PutEndOfStream
    \/ PutChunkCreated
    \/ PutLock
    \/ PutIoError
    \/ PutCancel

Spec == Init /\ [][Next]_vars

\* The uploads alone, with every error of their loop, on the topics the
\* action endpoint creates and deletes.
NextUpload ==
    \/ \E name \in SeqNames : SequenceCreate(name)
    \/ \E name \in TopicNames, key \in SequenceKeys : TopicCreate(name, key)
    \/ \E name \in TopicNames : TopicDelete(name)
    \/ \E err \in HeaderErrors : PutHeaderError(err)
    \/ \E schema \in Schemas : PutSchemaError(schema)
    \/ \E name \in TopicNames, key \in TopicKeys, schema \in Schemas :
            PutResourceId(name, key, schema)
    \/ PutMetadata
    \/ \E batch \in Batches : PutBatch(batch)
    \/ \E err \in StreamErrors \cup BatchErrors : PutStreamError(err)
    \/ PutEndOfStream
    \/ PutChunkCreated
    \/ PutLock
    \/ PutIoError
    \/ PutCancel

SpecUpload == Init /\ [][NextUpload]_vars

\* The action endpoint alone, with no upload, over the wider set of names.
NextNames ==
    \/ \E name \in WideSeqNames : SequenceCreate(name)
    \/ \E name \in WideSeqNames : SequenceDelete(name)
    \/ \E name \in WideSeqNames, key \in SequenceKeys : SequenceAbort(name, key)
    \/ \E name \in WideSeqNames, key \in SequenceKeys :
            SequenceFinalize(name, key)
    \/ \E name \in WideSeqNames, deleted \in SUBSET WideTopicNames :
            SequenceDeleteError(name, deleted)
    \/ \E name \in WideTopicNames, key \in SequenceKeys : TopicCreate(name, key)
    \/ \E name \in WideTopicNames : TopicDelete(name)

SpecNames == Init /\ [][NextNames]_vars

\* Uploads and topic_delete requests on the topics of one sequence, the
\* topic_delete taken in its two steps.
NextTopicDelete ==
    \/ \E name \in SeqNames : SequenceCreate(name)
    \/ \E name \in TopicNames, key \in SequenceKeys : TopicCreate(name, key)
    \/ \E name \in TopicNames : TopicDeleteCheck(name)
    \/ TopicDeleteRun
    \/ \E err \in HeaderErrors : PutHeaderError(err)
    \/ \E schema \in Schemas : PutSchemaError(schema)
    \/ \E name \in TopicNames, key \in TopicKeys, schema \in Schemas :
            PutResourceId(name, key, schema)
    \/ PutMetadata
    \/ \E batch \in Batches : PutBatch(batch)
    \/ \E err \in StreamErrors : PutStreamError(err)
    \/ PutEndOfStream
    \/ PutChunkCreated
    \/ PutLock
    \/ PutIoError
    \/ PutCancel

SpecTopicDelete == Init /\ [][NextTopicDelete]_vars

-----------------------------------------------------------------------------
(* query/filter.rs: values, operators, ranges *)

\* Result::Ok and Result::Err.
Ok(v) == [ok |-> TRUE, v |-> v]
Err(e) == [ok |-> FALSE, err |-> e]

\* The characters of the names and of the texts, in the order of their
\* bytes.
Alphabet == <<"/", "a", "b", "s", "t", "x">>

CharIndex(c) == CHOOSE i \in 1..Len(Alphabet) : Alphabet[i] = c

\* The order of String: lexicographic, byte by byte.
RECURSIVE str_gt(_, _)
str_gt(a, b) ==
    IF a = <<>> THEN FALSE
    ELSE IF b = <<>> THEN TRUE
    ELSE IF Head(a) # Head(b) THEN CharIndex(Head(a)) > CharIndex(Head(b))
    ELSE str_gt(Tail(a), Tail(b))

\* enum Value { Integer(i64), Float(f64), Text(String), Boolean(bool) }.
\* A float is written as the integer it equals (1.0 as 1): only floats with
\* no fractional part are drawn.
Integer(v) == [type |-> "Integer", v |-> v]
Float(v) == [type |-> "Float", v |-> v]
Text(v) == [type |-> "Text", text |-> v]
Boolean(v) == [type |-> "Boolean", bool |-> v]

\* The payload of a value.
Payload(value) ==
    CASE value.type \in {"Integer", "Float"} -> value.v
      [] value.type = "Text" -> value.text
      [] value.type = "Boolean" -> value.bool

\* The position of the variant in the declaration of Value.
VariantIndex(type) ==
    CASE type = "Integer" -> 0
      [] type = "Float" -> 1
      [] type = "Text" -> 2
      [] type = "Boolean" -> 3

\* #[derive(PartialOrd)] on Value, a > b: values of different variants are
\* ordered by the position of their variants, values of one variant by
\* their payloads.
Value_gt(a, b) ==
    IF a.type # b.type THEN VariantIndex(a.type) > VariantIndex(b.type)
    ELSE IF a.type = "Text" THEN str_gt(a.text, b.text)
    ELSE IF a.type = "Boolean" THEN a.bool /\ ~b.bool
    ELSE a.v > b.v

\* Range::try_new
Range_try_new(min, max) ==
    IF Value_gt(min, max) THEN Err("empty_range")
    ELSE Ok([min |-> min, max |-> max])

\* enum Op<T>. The operand type T of an operator is one of Text (names,
\* tags, formats), Timestamp (creation times) and Value (user metadata and
\* ontology fields); the operands are written as values in all three.
OperandTypes == {"Text", "Timestamp", "Value"}

ValueOps == {"Eq", "Neq", "Leq", "Geq", "Lt", "Gt", "Match"}

Op(kind, v) == [op |-> kind, v |-> v]
Ex == [op |-> "Ex"]
Nex == [op |-> "Nex"]
Between(range) == [op |-> "Between", range |-> range]
In(items) == [op |-> "In", items |-> items]

\* trait IsSupportedOp, as implemented for Text, Timestamp and Value.
support_eq(T, v) == TRUE

support_ordering(T, v) ==
    CASE T = "Text" -> FALSE
      [] T = "Timestamp" -> TRUE
      [] T = "Value" -> v.type \in {"Integer", "Float"}

support_in(T, v) ==
    CASE T = "Text" -> TRUE
      [] T = "Timestamp" -> FALSE
      [] T = "Value" -> v.type = "Boolean"

support_match(T, v) ==
    CASE T = "Text" -> TRUE
      [] T = "Timestamp" -> FALSE
      [] T = "Value" -> v.type = "Text"

\* Op::is_supported_op (the list of an In is not empty: items[0] panics on
\* an empty one).
is_supported_op(T, op) ==
    CASE op.op \in {"Eq", "Neq"} -> support_eq(T, op.v)
      [] op.op \in {"Leq", "Geq", "Lt", "Gt"} -> support_ordering(T, op.v)
      [] op.op \in {"Ex", "Nex"} -> TRUE
      [] op.op = "Between" -> support_ordering(T, op.range.min)
      [] op.op = "In" -> support_in(T, op.items[1])
      [] op.op = "Match" -> support_match(T, op.v)

-----------------------------------------------------------------------------
(* marshal/query.rs: the filter of a request *)

\* The operators of the DSL: $between carries its two bounds as written.
DslBetween(min, max) == [op |-> "Between", min |-> min, max |-> max]

\* TryInto<query::Text> and TryInto<query::Timestamp> for a value.
WrongType(T, v) ==
    CASE T = "Text" -> v.type # "Text"
      [] T = "Timestamp" -> v.type # "Integer"
      [] T = "Value" -> FALSE

\* TryInto<query::Op<T>> for Op.
Op_try_into(T, op) ==
    CASE op.op \in {"Ex", "Nex"} -> Ok(op)
      [] op.op \in {"Eq", "Neq"} ->
            IF WrongType(T, op.v) THEN Err("wrong_type") ELSE Ok(op)
      [] op.op \in {"Leq", "Geq", "Lt", "Gt"} ->
            IF T = "Text" THEN Err("unsupported_operation")
            ELSE IF WrongType(T, op.v) THEN Err("wrong_type") ELSE Ok(op)
      [] op.op = "Between" ->
            IF T = "Text" THEN Err("unsupported_operation")
            ELSE IF WrongType(T, op.min) \/ WrongType(T, op.max)
            THEN Err("wrong_type")
            ELSE LET range == Range_try_new(op.min, op.max)
                 IN  IF range.ok THEN Ok(Between(range.v)) ELSE range
      [] op.op = "In" ->
            IF \E i \in 1..Len(op.items) : WrongType(T, op.items[i])
            THEN Err("wrong_type") ELSE Ok(op)
      [] op.op = "Match" ->
            IF T = "Timestamp" THEN Err("unsupported_operation")
            ELSE IF WrongType(T, op.v) THEN Err("wrong_type") ELSE Ok(op)

-----------------------------------------------------------------------------
(* repo/sql_models/pg_queries/compilers.rs, builders.rs: the compilers *)

\* SqlQueryCompiler::compile_clause: the clause on a column of sequence_t
\* or topic_t (`field <op> $n`, with the values it binds), or an error.
SqlQueryCompiler_compile_clause(T, field, op) ==
    IF ~is_supported_op(T, op) THEN Err("unsupported_operation")
    ELSE IF op.op = "Match" /\ op.v.type # "Text"
    THEN Err("unsupported_operation")
    ELSE Ok([field |-> field, op |-> op])

\* JsonQueryCompiler::fmt_value: the cast of the accessor.
fmt_value(v) ==
    CASE v.type \in {"Integer", "Float"} -> "numeric"
      [] v.type = "Text" -> "text"
      [] v.type = "Boolean" -> "boolean"

\* JsonQueryCompiler::compile_clause: the clause on a path of a
\* user_metadata column, or an error.
JsonQueryCompiler_compile_clause(T, field, op) ==
    IF ~is_supported_op(T, op) THEN Err("unsupported_operation")
    ELSE IF op.op \in {"In", "Match"} THEN Err("unsupported_operation")
    ELSE IF op.op \in {"Ex", "Nex"} THEN Ok([field |-> field, op |-> op])
    ELSE Ok([field |-> field, op |-> op,
             cast |-> fmt_value(IF op.op = "Between" THEN op.range.min
                                ELSE op.v)])

\* build_clause: the statistics table a clause of the chunk query reads.
build_clause(v) ==
    IF v.type \in {"Integer", "Float", "Boolean"} THEN "numeric" ELSE "literal"

\* ChunkQueryBuilder::compile_clause: the SELECT of the chunks whose
\* statistics of the column `field` pass the test of the operator, or an
\* error.
ChunkQueryBuilder_compile_clause(field, op) ==
    IF op.op \in {"Eq", "Leq", "Geq", "Lt", "Gt"}
    THEN Ok([table |-> build_clause(op.v), field |-> field, op |-> op.op,
             values |-> <<op.v>>])
    ELSE IF op.op = "Between"
    THEN Ok([table |-> build_clause(op.range.min), field |-> field,
             op |-> op.op, values |-> <<op.range.min, op.range.max>>])
    ELSE Err("unsupported_operation")

\* chunks_from_filters binds a boolean as 1.0 or 0.0, a number as it is.
Bind(v) == IF v.type = "Boolean" THEN (IF v.bool THEN 1 ELSE 0) ELSE Payload(v)

\* The WHERE clause ChunkQueryBuilder::compile_clause writes for each
\* operator, on a row of statistics.
StatsWhere(clause, stats) ==
    LET p == Bind(clause.values[1])
    IN  CASE clause.op = "Eq" -> stats.min_value >= p /\ stats.max_value <= p
          [] clause.op = "Leq" -> stats.min_value <= p
          [] clause.op = "Geq" -> stats.max_value >= p
          [] clause.op = "Lt" -> stats.min_value < p
          [] clause.op = "Gt" -> stats.max_value > p
          [] clause.op = "Between" ->
                /\ stats.min_value <= Bind(clause.values[2])
                /\ stats.max_value >= p

\* The chunk ids a compiled clause of the chunk query selects.
SelectedChunks(clause) ==
    {st.chunk_id : st \in
        {st \in column_chunk_t :
            /\ st.kind = clause.table
            /\ st.ontology_tag = clause.field.ontology_tag
            /\ st.column_name = clause.field.field
            /\ StatsWhere(clause, st)}}

\* chunks_from_filters, ChunkQueryBuilder::build: the clauses of the
\* filter, and the clause on the topic ids if there are any, joined by
\* INTERSECT. With no clause at all the statement reads `WITH
\* __selected_chunks__ AS() SELECT ...`, which the database refuses.
chunks_from_filters(filter, on_topics) ==
    LET ids == {t.topic_id : t \in on_topics}
        compiled == {ChunkQueryBuilder_compile_clause(f, filter[f]) :
                        f \in DOMAIN filter}
    IN  IF \E c \in compiled : ~c.ok THEN Err("unsupported_operation")
        ELSE IF ids = {} /\ compiled = {} THEN Err("repository_error")
        ELSE Ok({c \in chunk_t :
                    /\ ids # {} => c.topic_id \in ids
                    /\ \A cl \in compiled : c.chunk_id \in SelectedChunks(cl.v)})

\* The test a compiled clause of SqlQueryCompiler makes on the value x of
\* its column (a name: never null).
RECURSIVE Contains(_, _)
Contains(s, p) ==
    \/ StartsWith(s, p)
    \/ s # <<>> /\ Contains(Tail(s), p)

SqlWhere(clause, x) ==
    LET op == clause.op
    IN  CASE op.op = "Eq" -> x = op.v
          [] op.op = "Neq" -> x # op.v
          [] op.op = "Ex" -> TRUE
          [] op.op = "Nex" -> FALSE
          [] op.op = "In" -> \E i \in 1..Len(op.items) : x = op.items[i]
          [] op.op = "Match" -> Contains(x.text, op.v.text)

\* topic_from_query_filter: the topics, joined with their sequences, that
\* pass every clause; none when there is no clause.
topic_from_query_filter(filter_seq, filter_top) ==
    IF ~filter_seq.some /\ ~filter_top.some THEN Ok({})
    ELSE LET seq_name ==
                IF filter_seq.some /\ filter_seq.v.name.some
                THEN {SqlQueryCompiler_compile_clause("Text",
                        "sequence.sequence_name", filter_seq.v.name.v)}
                ELSE {}
             top_name ==
                IF filter_top.some /\ filter_top.v.name.some
                THEN {SqlQueryCompiler_compile_clause("Text",
                        "topic.topic_name", filter_top.v.name.v)}
                ELSE {}
         IN  IF \E c \in seq_name \cup top_name : ~c.ok
             THEN Err("unsupported_operation")
             ELSE IF seq_name \cup top_name = {} THEN Ok({})
             ELSE Ok({t \in topic_t :
                        \E s \in sequence_t :
                            /\ t.sequence_id = s.sequence_id
                            /\ \A c \in seq_name :
                                    SqlWhere(c.v, Text(s.sequence_name))
                            /\ \A c \in top_name :
                                    SqlWhere(c.v, Text(t.topic_name))})

\* The rows of a result set as a Vec, in the order the database returns
\* them (the statements ask for none).
RECURSIVE AsVec(_)
AsVec(rows) ==
    IF rows = {} THEN <<>>
    ELSE LET row == CHOOSE row \in rows : TRUE
         IN  <<row>> \o AsVec(rows \ {row})

\* The items of a Vec.
Items(vec) == {vec[i] : i \in 1..Len(vec)}

\* sequences_group_from_topics: a group for each sequence id met in the
\* Vec of topics, with the name of every topic of the Vec that has that
\* sequence id pushed in its turn.
sequences_group_from_topics(topics) ==
    {LET of_seq == SelectSeq(topics,
                        LAMBDA t : t.sequence_id = s.sequence_id)
     IN  [sequence |-> s.sequence_name,
          topics |-> [i \in 1..Len(of_seq) |-> of_seq[i].topic_name]] :
        s \in {s \in sequence_t : \E t \in Items(topics) :
                                        t.sequence_id = s.sequence_id}}

-----------------------------------------------------------------------------
(* query/timeseries_gw.rs: the residual predicate on the rows of a chunk *)

\* ontology_filter_to_df_expr: the test of one operator on the value x of
\* its column ($ex and $nex add no test).
DfExpr(op, x) ==
    CASE op.op = "Eq" -> x = Payload(op.v)
      [] op.op = "Neq" -> x # Payload(op.v)
      [] op.op = "Leq" -> x <= Payload(op.v)
      [] op.op = "Geq" -> x >= Payload(op.v)
      [] op.op = "Lt" -> x < Payload(op.v)
      [] op.op = "Gt" -> x > Payload(op.v)
      [] op.op \in {"Ex", "Nex"} -> TRUE
      [] op.op = "Between" ->
            x <= Payload(op.range.max) /\ x >= Payload(op.range.min)
      [] op.op = "In" -> \E i \in 1..Len(op.items) : x = Payload(op.items[i])
      [] op.op = "Match" -> x = Payload(op.v)

\* TimeseriesGwResult::filter and count: the number of rows of a data file
\* that pass every test of the filter.
FilterCount(rows, filter) ==
    Cardinality({i \in 1..Len(rows) :
                    \A f \in DOMAIN filter : DfExpr(filter[f], rows[i][f.field])})

-----------------------------------------------------------------------------
(* server/endpoints/do_action.rs: ActionRequest::Query *)

\* The column of the ontology the chunks of the catalog hold.
SensorValue == [ontology_tag |-> OntologyTag, field |-> "value"]

\* The values of the column, and the numbers of the filters.
QueryValues == 1..MaxValue

\* The data files: one to MaxRows rows of one column.
DataFiles == UNION {[1..n -> [value : QueryValues]] : n \in 1..MaxRows}

\* NumericStats::eval over the rows of a data file.
NumericStats_eval(rows) ==
    LET vals == {rows[i].value : i \in 1..Len(rows)}
    IN  [min_value |-> CHOOSE v \in vals : \A w \in vals : v <= w,
         max_value |-> CHOOSE v \in vals : \A w \in vals : v >= w]

\* The ids of the topics and of their chunks, in the order of their
\* creation (the sequence takes the first id).
QueryTopicId(name) == IF name = TopicSA THEN 2 ELSE 3

QueryChunkId(name) == IF name = TopicSA THEN 1 ELSE 2

\* The catalog a query reads: the finalized sequence s with its topics s/a
\* and s/b, each with no chunk (<<>>) or with one chunk, of the given rows.
Catalog(files) ==
    LET uploaded == {n \in TopicNames : files[n] # <<>>}
        paths == {metadata_path(SeqS)}
                    \cup {metadata_path(n) : n \in TopicNames}
                    \cup {datafile(n, 0) : n \in uploaded}
    IN  /\ sequence_t = {[sequence_id |-> 1, sequence_uuid |-> 1,
                          sequence_name |-> SeqS, locked |-> TRUE]}
        /\ topic_t = {[topic_id |-> QueryTopicId(n),
                       topic_uuid |-> QueryTopicId(n),
                       sequence_id |-> 1, topic_name |-> n,
                       locked |-> TRUE] : n \in TopicNames}
        /\ chunk_t = {[chunk_id |-> QueryChunkId(n),
                       topic_id |-> QueryTopicId(n),
                       data_file |-> datafile(n, 0)] : n \in uploaded}
        /\ column_t = {[column_name |-> SensorValue.field,
                        ontology_tag |-> SensorValue.ontology_tag] :
                            n \in uploaded}
        /\ column_chunk_t =
                {[column_name |-> SensorValue.field,
                  ontology_tag |-> SensorValue.ontology_tag,
                  chunk_id |-> QueryChunkId(n), kind |-> "numeric",
                  min_value |-> NumericStats_eval(files[n]).min_value,
                  max_value |-> NumericStats_eval(files[n]).max_value] :
                    n \in uploaded}
        /\ blobs = [p \in paths |->
                        IF p = metadata_path(SeqS)
                        THEN <<"sequence_metadata">>
                        ELSE IF p.file = <<"metadata.json">>
                        THEN <<"topic_metadata", OntologyTag>>
                        ELSE files[p.dir]]

\* The requests. Of the sequence and topic groups only the name is written
\* (the other fields are absent); the ontology group holds no clause or one
\* clause on the column of the catalog.
QueryNumbers == {Integer(n) : n \in QueryValues}

OntologyOps ==
    {Op(k, v) : k \in {"Eq", "Neq", "Leq", "Geq", "Lt", "Gt"},
                v \in QueryNumbers}
        \cup {DslBetween(a, b) : a \in QueryNumbers, b \in QueryNumbers}
        \cup {Ex}

SequenceGroups ==
    {None, Some([name |-> None]),
     Some([name |-> Some(Op("Eq", Text(SeqS)))]),
     Some([name |-> Some(Op("Eq", Text(SeqT)))])}

TopicGroups ==
    {None, Some([name |-> None]),
     Some([name |-> Some(Op("Eq", Text(TopicSA)))])}

OntologyGroups ==
    {None, Some(<<>>)} \cup {Some(SensorValue :> op) : op \in OntologyOps}

Requests ==
    [sequence : SequenceGroups, topic : TopicGroups, ontology : OntologyGroups]

\* TryInto<query::SequenceFilter> / TryInto<query::TopicFilter>: the name.
NameGroup_try_into(group) ==
    IF ~group.some \/ ~group.v.name.some THEN Ok(group)
    ELSE LET op == Op_try_into("Text", group.v.name.v)
         IN  IF op.ok THEN Ok(Some([name |-> Some(op.v)])) ELSE op

\* TryInto<query::OntologyFilter> for the map of the ontology group.
OntologyGroup_try_into(group) ==
    IF ~group.some THEN Ok(group)
    ELSE IF \E f \in DOMAIN group.v : ~Op_try_into("Value", group.v[f]).ok
    THEN Err("op_error")
    ELSE Ok(Some([f \in DOMAIN group.v |->
                        Op_try_into("Value", group.v[f]).v]))

\* query_filter_from_serde_value
query_filter_from_serde_value(request) ==
    LET sequence == NameGroup_try_into(request.sequence)
        topic == NameGroup_try_into(request.topic)
        ontology == OntologyGroup_try_into(request.ontology)
    IN  IF ~sequence.ok \/ ~topic.ok \/ ~ontology.ok
        THEN Err("deserialization_error")
        ELSE Ok([sequence |-> sequence.v, topic |-> topic.v,
                 ontology |-> ontology.v])

\* SequenceFilter::is_empty / TopicFilter::is_empty
Filter_is_empty(filter) == ~filter.name.some

\* topic_find_by_ids
topic_find_by_ids(ids) == {t \in topic_t : t.topic_id \in ids}

\* The topic of a chunk with the test of no_topic_filter left out: the
\* topic of the chunk is always adopted.
ChunkTopic_adopt(no_topic_filter, topics, chunk) ==
    LET appended == topics \o AsVec(topic_find_by_ids({chunk.topic_id}))
    IN  [topics |-> appended,
         topic |-> IF appended = <<>> THEN None
                   ELSE Some(appended[Len(appended)])]

\* The topic of a chunk in the loop of the query, and the topics after it:
\* with no topic filter the topic of the chunk is appended to the topics
\* and the last of them taken, else the first of the topics selected that
\* has the topic id of the chunk is looked up.
ChunkTopic(no_topic_filter, topics, chunk) ==
    IF no_topic_filter
    THEN LET appended == topics \o AsVec(topic_find_by_ids({chunk.topic_id}))
         IN  [topics |-> appended,
              topic |-> IF appended = <<>> THEN None
                        ELSE Some(appended[Len(appended)])]
    ELSE LET found == {i \in 1..Len(topics) :
                            topics[i].topic_id = chunk.topic_id}
         IN  [topics |-> topics,
              topic |-> IF found = {} THEN None
                        ELSE Some(topics[CHOOSE i \in found :
                                            \A k \in found : i <= k])]

\* The loop of the query over the chunks found: the topic of a chunk with
\* a matching row is noted in filtered_topics; a chunk of no topic is
\* skipped.
RECURSIVE QueryChunks(_, _, _, _, _)
QueryChunks(chunks, topics, filtered_topics, no_topic_filter, filter) ==
    IF chunks = <<>>
    THEN [topics |-> topics, filtered_topics |-> filtered_topics]
    ELSE LET chunk == Head(chunks)
             found == ChunkTopic(no_topic_filter, topics, chunk)
             matched ==
                IF /\ found.topic.some
                   /\ FilterCount(blobs[chunk.data_file], filter) # 0
                THEN {found.topic.v.topic_id}
                ELSE {}
         IN  QueryChunks(Tail(chunks), found.topics,
                         filtered_topics \cup matched, no_topic_filter, filter)

\* ActionRequest::Query: what the request returns.
do_action_Query(request) ==
    LET filter == query_filter_from_serde_value(request)
    IN  IF ~filter.ok THEN filter
        ELSE
        LET seq_filt == filter.v.sequence
            top_filt == filter.v.topic
            dc_filt == filter.v.ontology
            no_topic_filter ==
                /\ ~seq_filt.some \/ Filter_is_empty(seq_filt.v)
                /\ ~top_filt.some \/ Filter_is_empty(top_filt.v)
            topics == topic_from_query_filter(seq_filt, top_filt)
        IN  IF ~topics.ok THEN topics
            ELSE IF ~dc_filt.some
            THEN Ok(sequences_group_from_topics(AsVec(topics.v)))
            ELSE
            LET chunks == chunks_from_filters(dc_filt.v, topics.v)
            IN  IF ~chunks.ok THEN chunks
                ELSE
                LET looped == QueryChunks(AsVec(chunks.v), AsVec(topics.v),
                                          {}, no_topic_filter, dc_filt.v)
                IN  Ok(sequences_group_from_topics(
                        SelectSeq(looped.topics,
                            LAMBDA e : e.topic_id \in looped.filtered_topics)))

\* The query request received is served.
Query ==
    /\ query.some
    /\ action = "none"
    /\ action' = "query"
    /\ response' = do_action_Query(query.v)
    /\ UNCHANGED <<repo_vars, blobs, put, deleting, query, server_vars, chunked_writer, facade>>

\* A catalog and a query request received on it.
InitQuery ==
    \E files \in [TopicNames -> DataFiles \cup {<<>>}], request \in Requests :
        /\ Catalog(files)
        /\ put = PutIdle
        /\ action = "none"
        /\ response = "none"
        /\ deleting = <<>>
        /\ query = Some(request)
        /\ server = ServerNew
        /\ layer_t = {}
        /\ chunked_writer = ChunkedWriter_new
        /\ facade = FacadeIdle

\* The catalog after a second upload to the topic s/a: the data file of
\* the topic holds the rows of the second upload, and the topic has the
\* chunk row and the statistics of each upload.
CatalogReuploaded(first, second) ==
    LET topic_id == QueryTopicId(TopicSA)
        stats(chunk_id, rows) ==
            [column_name |-> SensorValue.field,
             ontology_tag |-> SensorValue.ontology_tag,
             chunk_id |-> chunk_id, kind |-> "numeric",
             min_value |-> NumericStats_eval(rows).min_value,
             max_value |-> NumericStats_eval(rows).max_value]
    IN  /\ sequence_t = {[sequence_id |-> 1, sequence_uuid |-> 1,
                          sequence_name |-> SeqS, locked |-> TRUE]}
        /\ topic_t = {[topic_id |-> QueryTopicId(n),
                       topic_uuid |-> QueryTopicId(n),
                       sequence_id |-> 1, topic_name |-> n,
                       locked |-> TRUE] : n \in TopicNames}
        /\ chunk_t = {[chunk_id |-> chunk_id, topic_id |-> topic_id,
                       data_file |-> datafile(TopicSA, 0)] :
                            chunk_id \in {1, 2}}
        /\ column_t = {[column_name |-> SensorValue.field,
                        ontology_tag |-> SensorValue.ontology_tag]}
        /\ column_chunk_t = {stats(1, first), stats(2, second)}
        /\ blobs = [p \in {metadata_path(SeqS), datafile(TopicSA, 0)}
                            \cup {metadata_path(n) : n \in TopicNames} |->
                        IF p = metadata_path(SeqS)
                        THEN <<"sequence_metadata">>
                        ELSE IF p.file = <<"metadata.json">>
                        THEN <<"topic_metadata", OntologyTag>>
                        ELSE second]

\* A catalog with a topic uploaded twice and a query request received on
\* it.
InitQueryChunks ==
    \E first \in DataFiles, second \in DataFiles, request \in Requests :
        /\ CatalogReuploaded(first, second)
        /\ put = PutIdle
        /\ action = "none"
        /\ response = "none"
        /\ deleting = <<>>
        /\ query = Some(request)
        /\ server = ServerNew
        /\ layer_t = {}
        /\ chunked_writer = ChunkedWriter_new
        /\ facade = FacadeIdle

NextQuery == Query

\* The query endpoint: one request on every catalog.
SpecQuery == InitQuery /\ [][NextQuery]_vars

\* The query endpoint on the catalogs with a topic uploaded twice.
SpecQueryChunks == InitQueryChunks /\ [][NextQuery]_vars

-----------------------------------------------------------------------------
(* The filter of a request and its compilation, operator by operator *)

\* The values of the DSL.
DslValues ==
    {Integer(n) : n \in QueryValues} \cup {Float(n) : n \in QueryValues}
        \cup {Text(<<"a">>), Text(<<"b">>)}
        \cup {Boolean(FALSE), Boolean(TRUE)}

\* The operators of the DSL (the list of a $in holds one value).
DslOps ==
    {Op(k, v) : k \in ValueOps, v \in DslValues}
        \cup {DslBetween(a, b) : a \in DslValues, b \in DslValues}
        \cup {In(<<v>>) : v \in DslValues}
        \cup {Ex, Nex}

\* The operands of an operator of the DSL.
Operands(op) ==
    IF op.op \in {"Ex", "Nex"} THEN {}
    ELSE IF op.op = "Between" THEN {op.min, op.max}
    ELSE IF op.op = "In" THEN {op.items[i] : i \in 1..Len(op.items)}
    ELSE {op.v}

\* The values of Op<T>: every operator whose operands are of type T, a
\* $between with its range built.
QueryOps(T) ==
    {IF op.op = "Between"
     THEN Between([min |-> op.min, max |-> op.max]) ELSE op :
        op \in {op \in DslOps :
                    /\ \A v \in Operands(op) : ~WrongType(T, v)
                    /\ op.op = "Between" => Range_try_new(op.min, op.max).ok}}

\* The compilers, with the operand types they are called with.
Compilers ==
    {<<"SqlQueryCompiler", "Text">>, <<"SqlQueryCompiler", "Timestamp">>,
     <<"JsonQueryCompiler", "Value">>, <<"ChunkQueryBuilder", "Value">>}

compile_clause(compiler, T, field, op) ==
    CASE compiler = "SqlQueryCompiler" ->
            SqlQueryCompiler_compile_clause(T, field, op)
      [] compiler = "JsonQueryCompiler" ->
            JsonQueryCompiler_compile_clause(T, field, op)
      [] compiler = "ChunkQueryBuilder" ->
            ChunkQueryBuilder_compile_clause(field, op)

\* An operator of a request is converted to Op<T>.
MarshalOp(T, op) ==
    /\ action' = "marshal"
    /\ query' = Some([T |-> T, op |-> op])
    /\ response' = Op_try_into(T, op)
    /\ UNCHANGED <<repo_vars, blobs, put, deleting, server_vars, chunked_writer, facade>>

\* An operator is compiled into a clause.
CompileClause(compiler, T, op) ==
    /\ action' = "compile"
    /\ query' = Some([compiler |-> compiler, T |-> T, op |-> op])
    /\ response' = compile_clause(compiler, T, SensorValue, op)
    /\ UNCHANGED <<repo_vars, blobs, put, deleting, server_vars, chunked_writer, facade>>

\* Op::is_supported_op as a call: its verdict, or the panic of items[0] on
\* the empty list of an In.
Op_is_supported_op(T, op) ==
    IF op.op = "In" /\ op.items = <<>>
    THEN Err("panic")
    ELSE Ok(is_supported_op(T, op))

\* An operator is asked whether its operand type supports it.
IsSupportedOp(T, op) ==
    /\ action' = "is_supported_op"
    /\ query' = Some([T |-> T, op |-> op])
    /\ response' = Op_is_supported_op(T, op)
    /\ UNCHANGED <<repo_vars, blobs, put, deleting, server_vars, chunked_writer, facade>>

NextCompile ==
    \/ \E T \in OperandTypes, op \in DslOps : MarshalOp(T, op)
    \/ \E c \in Compilers : \E op \in QueryOps(c[2]) :
            CompileClause(c[1], c[2], op)
    \/ \E T \in OperandTypes : \E op \in QueryOps(T) \cup {In(<<>>)} :
            IsSupportedOp(T, op)

\* The filter builder and the compilers as functions of one operator.
SpecCompile == Init /\ [][NextCompile]_vars

-----------------------------------------------------------------------------
(* main.rs, server/core.rs, server/flight.rs: start-up and shutdown *)

\* Maximum number of SIGINT delivered to one process.
MaxSignals == 2

\* Maximum number of start-ups of the server on one metadata store.
MaxStarts == 2

\* The name of the layer ensured at start-up.
DEFAULT_LAYER_NAME == "default"

\* SELECT * FROM layer_t WHERE layer_name=$1 (no row: RowNotFound).
layer_find_by_locator(rows, name) == {l \in rows : l.layer_name = name}

\* INSERT INTO layer_t: the row gets the next value of the serial key.
layer_create(rows, name) ==
    rows \cup {[layer_id |-> Cardinality(rows) + 1, layer_name |-> name]}

\* A bootstrap that inserts the default layer without looking for it.
layer_bootstrap_always(rows) == layer_create(rows, DEFAULT_LAYER_NAME)

\* The default layer is created when the lookup finds no row.
layer_bootstrap(rows) ==
    IF layer_find_by_locator(rows, DEFAULT_LAYER_NAME) = {}
    THEN layer_create(rows, DEFAULT_LAYER_NAME)
    ELSE rows

\* run(): the SIGINT listener is installed and its thread spawned.
InstallListener ==
    /\ server.pc = "new"
    /\ server' = [server EXCEPT !.pc = "installed"]
    /\ UNCHANGED <<repo_vars, blobs, put, action, response, deleting, query,
                   layer_t, chunked_writer, facade>>

\* A SIGINT reaches the process: the signal is flagged for the listener
\* thread (signals flagged and not yet taken are merged).
Sigint ==
    /\ server.pc \notin {"new", "returned"}
    /\ server.sigints < MaxSignals
    /\ server' = [server EXCEPT !.pending = TRUE, !.sigints = @ + 1]
    /\ UNCHANGED <<repo_vars, blobs, put, action, response, deleting, query,
                   layer_t, chunked_writer, facade>>

\* The listener thread takes the signal and calls notify_waiters(): the
\* futures waiting on the notifier at that moment are woken, and no permit
\* is kept for one created later.
Listener ==
    /\ server.pc \notin {"new", "returned"}
    /\ server.pending
    /\ server' = [server EXCEPT !.pending = FALSE,
                                !.notified = @ \/ server.waiters]
    /\ UNCHANGED <<repo_vars, blobs, put, action, response, deleting, query,
                   layer_t, chunked_writer, facade>>

\* start_and_wait: the runtime is built and the repository connects.
RepositoryTryNew ==
    /\ server.pc = "installed"
    /\ server' = [server EXCEPT !.pc = "connected"]
    /\ UNCHANGED <<repo_vars, blobs, put, action, response, deleting, query,
                   layer_t, chunked_writer, facade>>

\* start_and_wait: layer_bootstrap runs inside the transaction.
LayerBootstrap ==
    /\ server.pc = "connected"
    /\ server' = [server EXCEPT !.pc = "bootstrapped",
                                !.tx = layer_bootstrap(layer_t)]
    /\ UNCHANGED <<repo_vars, blobs, put, action, response, deleting, query,
                   layer_t, chunked_writer, facade>>

\* start_and_wait: the transaction commits.
Commit ==
    /\ server.pc = "bootstrapped"
    /\ layer_t' = server.tx
    /\ server' = [server EXCEPT !.pc = "initialised", !.tx = {}]
    /\ UNCHANGED <<repo_vars, blobs, put, action, response, deleting, query,
                   chunked_writer, facade>>

\* start_and_wait: a step of the repository initialisation fails; the
\* transaction is dropped and start_and_wait returns the error.
RepoInitError ==
    /\ server.pc \in {"installed", "connected", "bootstrapped"}
    /\ server' = [server EXCEPT !.pc = "returned", !.tx = {}]
    /\ UNCHANGED <<repo_vars, blobs, put, action, response, deleting, query,
                   layer_t, chunked_writer, facade>>

\* flight::start: the service is built and serve_with_shutdown polls its
\* shutdown future, which from now on waits on the notifier.
FlightStart ==
    /\ server.pc = "initialised"
    /\ server' = [server EXCEPT !.pc = "serving", !.waiters = TRUE]
    /\ UNCHANGED <<repo_vars, blobs, put, action, response, deleting, query,
                   layer_t, chunked_writer, facade>>

\* flight::start returns an error (address, service or transport).
FlightError ==
    /\ server.pc \in {"initialised", "serving"}
    /\ server' = [server EXCEPT !.pc = "stopped", !.waiters = FALSE]
    /\ UNCHANGED <<repo_vars, blobs, put, action, response, deleting, query,
                   layer_t, chunked_writer, facade>>

\* serve_with_shutdown: the shutdown future was woken; the server stops
\* accepting, drains and returns.
Shutdown ==
    /\ server.pc = "serving"
    /\ server.notified
    /\ server' = [server EXCEPT !.pc = "stopped", !.waiters = FALSE]
    /\ UNCHANGED <<repo_vars, blobs, put, action, response, deleting, query,
                   layer_t, chunked_writer, facade>>

\* start_and_wait: the flight task was joined; start_and_wait returns.
Return ==
    /\ server.pc = "stopped"
    /\ server' = [server EXCEPT !.pc = "returned"]
    /\ UNCHANGED <<repo_vars, blobs, put, action, response, deleting, query,
                   layer_t, chunked_writer, facade>>

\* The server is started again, as a new process on the same metadata store.
Restart ==
    /\ server.pc = "returned"
    /\ server.starts < MaxStarts
    /\ server' = [ServerNew EXCEPT !.starts = server.starts + 1]
    /\ UNCHANGED <<repo_vars, blobs, put, action, response, deleting, query,
                   layer_t, chunked_writer, facade>>

\* The steps the process takes by itself once it runs.
ServerStep ==
    \/ RepositoryTryNew
    \/ LayerBootstrap
    \/ Commit
    \/ FlightStart
    \/ Shutdown
    \/ Return

NextServer ==
    \/ InstallListener
    \/ Sigint
    \/ Listener
    \/ ServerStep
    \/ RepoInitError
    \/ FlightError
    \/ Restart

\* The life of the server process.  The runtime keeps running the task that
\* is ready and the listener thread keeps taking the signals: both are
\* weakly fair.  Signals, errors and restarts come from outside.
SpecServer ==
    /\ Init
    /\ [][NextServer]_vars
    /\ WF_vars(InstallListener)
    /\ WF_vars(ServerStep)
    /\ WF_vars(Listener)

-----------------------------------------------------------------------------
(* repo/facades: create calls that return an error *)

\* The steps of a create that can fail: the insert of the row, the write of
\* metadata.json, the commit.
CreateFaults == {"insert", "write", "commit"}

\* sequence_t.sequence_name and topic_t.topic_name are unique: an insert of
\* a name that has a row is refused.
NameTaken(rows) == rows # {}

\* FacadeSequence::create returning an error: the insert fails (for one, on
\* a name that has a row), or the write of metadata.json fails, or the
\* commit fails after metadata.json was written.  The transaction is dropped
\* and its row with it.
FacadeSequence_create_error(name, fault) ==
    /\ IF fault = "insert" \/ NameTaken(sequence_find_by_locator(name))
       THEN response' = "repository_error" /\ blobs' = blobs
       ELSE IF fault = "write"
       THEN response' = "store_error" /\ blobs' = blobs
       ELSE /\ response' = "repository_error"
            /\ blobs' = write_bytes(blobs, metadata_path(name),
                                    <<"sequence_metadata">>)
    /\ UNCHANGED repo_vars

\* FacadeTopic::create returning an error after its tests of the sequence
\* passed.
FacadeTopic_create_error(name, sequence, fault) ==
    /\ \E srecord \in sequence_find_by_uuid(sequence) :
            ~srecord.locked /\ is_sub_resource(name, srecord.sequence_name)
    /\ IF fault = "insert" \/ NameTaken(topic_find_by_locator(name))
       THEN response' = "repository_error" /\ blobs' = blobs
       ELSE IF fault = "write"
       THEN response' = "store_error" /\ blobs' = blobs
       ELSE /\ response' = "repository_error"
            /\ blobs' = write_bytes(blobs, metadata_path(name),
                                    <<"topic_metadata", OntologyTag>>)
    /\ UNCHANGED repo_vars

\* ActionRequest::SequenceCreate with handle.create() returning an error: a
\* step of the create failed, or the name was taken by another request after
\* resource_id() found no row.
SequenceCreateError(name, fault) ==
    /\ action' = "sequence_create"
    /\ FacadeSequence_create_error(name, fault)
    /\ UNCHANGED <<put, deleting, query, server_vars, chunked_writer, facade>>

\* ActionRequest::TopicCreate with handle.create() returning an error.
TopicCreateError(name, sequence_key, fault) ==
    /\ action' = "topic_create"
    /\ FacadeTopic_create_error(name, sequence_key, fault)
    /\ UNCHANGED <<put, deleting, query, server_vars, chunked_writer, facade>>

\* The requests that create and remove sequences and topics, with creates
\* that fail.
NextCreate ==
    \/ \E name \in SeqNames : SequenceCreate(name)
    \/ \E name \in SeqNames, fault \in CreateFaults :
            SequenceCreateError(name, fault)
    \/ \E name \in SeqNames : SequenceDelete(name)
    \/ \E name \in SeqNames, key \in SequenceKeys : SequenceAbort(name, key)
    \/ \E name \in SeqNames, key \in SequenceKeys : SequenceFinalize(name, key)
    \/ \E name \in TopicNames, key \in SequenceKeys : TopicCreate(name, key)
    \/ \E name \in TopicNames, key \in SequenceKeys, fault \in CreateFaults :
            TopicCreateError(name, key, fault)
    \/ \E name \in TopicNames : TopicDelete(name)

SpecCreate == Init /\ [][NextCreate]_vars

-----------------------------------------------------------------------------
(* rw/chunked_writer.rs: a ChunkedWriter under any sequence of calls *)

\* Maximum number of batches accepted between two finalize calls.
MaxWrites == 2

\* Maximum number of chunks a ChunkedWriter is taken through.
MaxFinalizes == 2

\* The record batches written.
WriterBatches == {"b1", "b2"}

\* The calls of a ChunkedWriter leave the rest of the system alone.
WriterFrame ==
    UNCHANGED <<repo_vars, put, deleting, query, server_vars, facade>>

\* A call on the ChunkedWriter returns.
WriterReturns(call, res) == action' = call /\ response' = res

\* ChunkedWriter::on_chunk_created: sets the callback.
OnChunkCreated ==
    /\ chunked_writer.pc = "ready"
    /\ ~chunked_writer.on_chunk_created_clbk
    /\ chunked_writer' = [chunked_writer EXCEPT !.on_chunk_created_clbk = TRUE]
    /\ WriterReturns("on_chunk_created", "ok")
    /\ UNCHANGED blobs
    /\ WriterFrame

\* ChunkedWriter::write returning Ok: the batch goes to the inner writer,
\* created from it when there is none.
Write(batch) ==
    /\ chunked_writer.pc = "ready"
    /\ Len(chunked_writer.since) < MaxWrites
    /\ chunked_writer' =
            [chunked_writer EXCEPT
                !.writer = ChunkedWriter_write(@, batch),
                !.since = Append(@, batch)]
    /\ WriterReturns("write", "ok")
    /\ UNCHANGED blobs
    /\ WriterFrame

\* ChunkedWriter::write returning an error: ChunkWriter::try_new or
\* writer.write(batch) fails after self.writer.take(), and the writer taken
\* is dropped with what it holds.
WriteError ==
    /\ chunked_writer.pc = "ready"
    /\ chunked_writer' = [chunked_writer EXCEPT !.writer = NoWriter]
    /\ WriterReturns("write", "error")
    /\ UNCHANGED blobs
    /\ WriterFrame

\* ChunkedWriter::finalize with no inner writer: returns Ok.
FinalizeNone ==
    /\ chunked_writer.pc = "ready"
    /\ ~chunked_writer.writer.some
    /\ chunked_writer' = [chunked_writer EXCEPT !.since = <<>>]
    /\ WriterReturns("finalize", "ok")
    /\ UNCHANGED blobs
    /\ WriterFrame

\* ChunkedWriter::finalize with an inner writer: the writer is taken, the
\* path of the chunk is formatted with the counter, the counter is
\* incremented.
FinalizeTake ==
    /\ chunked_writer.pc = "ready"
    /\ chunked_writer.writer.some
    /\ chunked_writer.chunk_serialized_number < MaxFinalizes
    /\ chunked_writer' =
            [chunked_writer EXCEPT
                !.pc = "flush",
                !.path = datafile(TopicSA,
                                  chunked_writer.chunk_serialized_number),
                !.chunk_serialized_number = @ + 1,
                !.buffer = chunked_writer.writer.batches,
                !.writer = NoWriter,
                !.found = @ + 1]
    /\ UNCHANGED <<blobs, action, response>>
    /\ WriterFrame

\* finalize: writer.finalize() returns the buffer and the statistics.
FinalizeFlush ==
    /\ chunked_writer.pc = "flush"
    /\ chunked_writer' = [chunked_writer EXCEPT !.pc = "store"]
    /\ UNCHANGED <<blobs, action, response>>
    /\ WriterFrame

\* finalize: write_to_path stores the buffer at the path of the chunk.
FinalizeStore ==
    /\ chunked_writer.pc = "store"
    /\ blobs' = write_bytes(blobs, chunked_writer.path, chunked_writer.buffer)
    /\ chunked_writer' = [chunked_writer EXCEPT !.pc = "callback"]
    /\ UNCHANGED <<action, response>>
    /\ WriterFrame

\* finalize: the chunk-created callback runs and finalize returns what it
\* returned.
FinalizeCallback(res) ==
    /\ chunked_writer.pc = "callback"
    /\ chunked_writer.on_chunk_created_clbk
    /\ chunked_writer' =
            [chunked_writer EXCEPT
                !.pc = "ready",
                !.callbacks = Append(@, chunked_writer.path),
                !.path = NoPath, !.buffer = <<>>, !.since = <<>>]
    /\ WriterReturns("finalize", res)
    /\ UNCHANGED blobs
    /\ WriterFrame

\* finalize: no callback was set, and unwrap() on the missing callback
\* panics once the blob is stored.
FinalizePanic ==
    /\ chunked_writer.pc = "callback"
    /\ ~chunked_writer.on_chunk_created_clbk
    /\ chunked_writer' = [chunked_writer EXCEPT !.pc = "panicked"]
    /\ WriterReturns("finalize", "panic")
    /\ UNCHANGED blobs
    /\ WriterFrame

\* finalize: writer.finalize() or write_to_path returns an error, and
\* finalize returns it.
FinalizeError ==
    /\ chunked_writer.pc \in {"flush", "store"}
    /\ chunked_writer' =
            [chunked_writer EXCEPT
                !.pc = "ready", !.path = NoPath, !.buffer = <<>>,
                !.since = <<>>]
    /\ WriterReturns("finalize", "error")
    /\ UNCHANGED blobs
    /\ WriterFrame

NextWriter ==
    \/ OnChunkCreated
    \/ \E batch \in WriterBatches : Write(batch)
    \/ WriteError
    \/ FinalizeNone
    \/ FinalizeTake
    \/ FinalizeFlush
    \/ FinalizeStore
    \/ \E res \in {"ok", "error"} : FinalizeCallback(res)
    \/ FinalizePanic
    \/ FinalizeError

\* One ChunkedWriter on the path of a topic, under any sequence of write and
\* finalize calls, each of which may fail.
SpecWriter == Init /\ [][NextWriter]_vars

-----------------------------------------------------------------------------
(* types/chunk.rs: the statistics of a column *)

\* Maximum number of values evaluated by one statistics object.
MaxEvals == 3

\* The largest finite f64 of the model, standing for f64::MAX.
MaxFinite == 2

\* f64: a NaN, or a number from -INFINITY to INFINITY; the finite numbers
\* are those from f64::MIN to f64::MAX.
F64(v) == [nan |-> FALSE, n |-> v]
NAN == [nan |-> TRUE, n |-> 0]
F64_MAX == F64(MaxFinite)
F64_MIN == F64(0 - MaxFinite)
INFINITY == F64(MaxFinite + 1)
NEG_INFINITY == F64(0 - (MaxFinite + 1))

\* The comparison of two f64: false when either is NaN.
f64_gt(a, b) == ~a.nan /\ ~b.nan /\ a.n > b.n

\* The values of a numeric column: absent, NaN, or a number.
NumericValues ==
    {None, Some(NAN)}
        \cup {Some(F64(v)) : v \in (0 - (MaxFinite + 1))..(MaxFinite + 1)}

\* The values of a literal column: absent, or a text.
TextValues == {None} \cup {Some(t) : t \in {<<>>, <<"a">>, <<"b">>, <<"a", "b">>}}

TEXT_MIN_PLACEHOLDER == <<>>
TEXT_MAX_PLACEHOLDER == <<>>
NUMERIC_MIN_PLACEHOLDER == F64_MAX
NUMERIC_MAX_PLACEHOLDER == F64_MIN

NumericStats_new ==
    [min |-> NUMERIC_MIN_PLACEHOLDER, max |-> NUMERIC_MAX_PLACEHOLDER,
     has_null |-> FALSE, has_nan |-> FALSE]

\* NumericStats::eval of one value.
NumericStats_eval_value(self, val) ==
    IF val.some
    THEN IF val.v.nan
         THEN [self EXCEPT !.has_nan = TRUE]
         ELSE [self EXCEPT
                !.min = IF f64_gt(self.min, val.v) THEN val.v ELSE @,
                !.max = IF f64_gt(val.v, self.max) THEN val.v ELSE @]
    ELSE [self EXCEPT !.has_null = TRUE]

TextStats_new ==
    [min |-> TEXT_MIN_PLACEHOLDER, max |-> TEXT_MAX_PLACEHOLDER,
     has_null |-> FALSE]

\* TextStats::eval of one value.
TextStats_eval(self, val) ==
    IF val.some
    THEN [self EXCEPT
            !.min = IF self.min = TEXT_MIN_PLACEHOLDER \/ str_gt(self.min, val.v)
                    THEN val.v ELSE @,
            !.max = IF self.max = TEXT_MAX_PLACEHOLDER \/ str_gt(val.v, self.max)
                    THEN val.v ELSE @]
    ELSE [self EXCEPT !.has_null = TRUE]

\* A statistics object evaluates the values of a column one by one.
RECURSIVE NumericStats_eval_all(_, _)
NumericStats_eval_all(self, vals) ==
    IF vals = <<>> THEN self
    ELSE NumericStats_eval_all(NumericStats_eval_value(self, Head(vals)),
                               Tail(vals))

RECURSIVE TextStats_eval_all(_, _)
TextStats_eval_all(self, vals) ==
    IF vals = <<>> THEN self
    ELSE TextStats_eval_all(TextStats_eval(self, Head(vals)), Tail(vals))

\* The frame of the statistics: nothing else is touched.
StatsFrame ==
    UNCHANGED <<repo_vars, blobs, put, deleting, server_vars, chunked_writer, facade>>

\* NumericStats::new: `query` keeps the values evaluated so far, `response`
\* is the statistics object.
NumericNew ==
    /\ action' = "numeric_stats"
    /\ query' = Some(<<>>)
    /\ response' = NumericStats_new
    /\ StatsFrame

NumericEval(val) ==
    /\ action = "numeric_stats"
    /\ Len(query.v) < MaxEvals
    /\ action' = action
    /\ query' = Some(Append(query.v, val))
    /\ response' = NumericStats_eval_value(response, val)
    /\ StatsFrame

TextNew ==
    /\ action' = "text_stats"
    /\ query' = Some(<<>>)
    /\ response' = TextStats_new
    /\ StatsFrame

TextEval(val) ==
    /\ action = "text_stats"
    /\ Len(query.v) < MaxEvals
    /\ action' = action
    /\ query' = Some(Append(query.v, val))
    /\ response' = TextStats_eval(response, val)
    /\ StatsFrame

NextStats ==
    \/ NumericNew
    \/ \E val \in NumericValues : NumericEval(val)
    \/ TextNew
    \/ \E val \in TextValues : TextEval(val)

\* One statistics object of either kind, fed any values in any order.
SpecStats == Init /\ [][NextStats]_vars

-----------------------------------------------------------------------------
(* arrow.rs: the fields of a nested schema, flattened *)

\* Maximum number of fields of a schema, nested fields included.
MaxFields == 3

\* The names of the fields: the empty name and a one-letter name.
FieldNames == {<<>>, <<"a">>}

\* The data types: Struct(children), the nested types List and Map with
\* the one field they carry, and a primitive type.
Field(name, data_type, children) ==
    [name |-> name, data_type |-> data_type, children |-> children]

\* The schemas of exactly k fields, nested fields included, as the sequence
\* of their top-level fields ("schemas"), and those of them that are one
\* top-level field ("fields").
SchemasOf[kind_k \in {"fields", "schemas"} \X (0..MaxFields)] ==
    LET k == kind_k[2]
    IN  IF k = 0
        THEN IF kind_k[1] = "schemas" THEN {<<>>} ELSE {}
        ELSE IF kind_k[1] = "fields"
        THEN {Field(name, "Struct", children) :
                name \in FieldNames, children \in SchemasOf[<<"schemas", k - 1>>]}
             \cup (IF k = 1
                   THEN {Field(name, "Int64", <<>>) : name \in FieldNames}
                   ELSE {Field(name, data_type, <<item>>) :
                            name \in FieldNames, data_type \in {"List", "Map"},
                            item \in SchemasOf[<<"fields", k - 1>>]})
        ELSE UNION {{<<f>> \o rest :
                        f \in SchemasOf[<<"fields", j>>],
                        rest \in SchemasOf[<<"schemas", k - j>>]} :
                    j \in 1..k}

NestedSchemas == UNION {SchemasOf[<<"schemas", k>>] : k \in 1..MaxFields}

\* The entries pushed on the front of the queue for the children of a
\* struct: reversed and pushed one by one, they are popped in their order.
push_front_children(current_name, children) ==
    [i \in 1..Len(children) |-> [prefix |-> current_name, field |-> children[i]]]

\* SchemaFlattenerIter::new: the top-level fields, with the empty prefix.
SchemaFlattenerIter_new(schema) ==
    [i \in 1..Len(schema) |-> [prefix |-> <<>>, field |-> schema[i]]]

\* SchemaFlattenerIter::next: the queue left and the item returned.
RECURSIVE SchemaFlattenerIter_next(_)
SchemaFlattenerIter_next(field_queue) ==
    IF field_queue = <<>> THEN [field_queue |-> <<>>, item |-> None]
    ELSE LET prefix == Head(field_queue).prefix
             field == Head(field_queue).field
             current_name == IF prefix = <<>> THEN field.name
                             ELSE prefix \o <<".">> \o field.name
         IN  IF field.data_type = "Struct"
             THEN SchemaFlattenerIter_next(
                    push_front_children(current_name, field.children)
                        \o Tail(field_queue))
             ELSE [field_queue |-> Tail(field_queue),
                   item |-> Some([name |-> current_name, field |-> field])]

\* squashed_iter() on a schema: `query` keeps the schema, `response` the
\* iterator with the items it has returned.
SquashedIter(schema) ==
    /\ action = "none"
    /\ action' = "squashed_iter"
    /\ query' = Some(schema)
    /\ response' = [field_queue |-> SchemaFlattenerIter_new(schema),
                    yielded |-> <<>>, done |-> FALSE]
    /\ UNCHANGED <<repo_vars, blobs, put, deleting, server_vars, chunked_writer, facade>>

\* One call of next() on the iterator.
IterNext ==
    /\ action \in {"squashed_iter", "next"}
    /\ ~response.done
    /\ LET r == SchemaFlattenerIter_next(response.field_queue)
       IN  response' = [field_queue |-> r.field_queue,
                        yielded |-> IF r.item.some
                                    THEN Append(response.yielded, r.item.v)
                                    ELSE response.yielded,
                        done |-> ~r.item.some]
    /\ action' = "next"
    /\ UNCHANGED <<repo_vars, blobs, put, deleting, server_vars, chunked_writer, facade>>
    /\ UNCHANGED query

NextFlatten ==
    \/ action = "none" /\ \E schema \in NestedSchemas : SquashedIter(schema)
    \/ IterNext

\* The flattening iterator over one schema, called until it returns None.
SpecFlatten == Init /\ [][NextFlatten]_vars

-----------------------------------------------------------------------------
(* types/resources.rs: the names of the resources, sanitized *)

\* Maximum length of a name given to a locator.
MaxNameLen == 4

\* The characters of the names given: a white space, the separator, a letter.
NameChars == {" ", "/", "a"}

RawNames == UNION {[1..n -> NameChars] : n \in 0..MaxNameLen}

\* str::trim: the white space at both ends removed.
RECURSIVE trim_start(_)
trim_start(s) ==
    IF s # <<>> /\ Head(s) = " " THEN trim_start(Tail(s)) ELSE s

RECURSIVE trim_end(_)
trim_end(s) ==
    IF s # <<>> /\ s[Len(s)] = " " THEN trim_end(SubSeq(s, 1, Len(s) - 1))
    ELSE s

trim(s) == trim_end(trim_start(s))

\* str::strip_prefix with one character.
strip_prefix(s, c) ==
    IF s # <<>> /\ Head(s) = c THEN Some(Tail(s)) ELSE None

\* sanitize_name
sanitize_name(name) ==
    LET trimmed == trim(name)
        stripped == strip_prefix(trimmed, "/")
    IN  IF stripped.some THEN stripped.v ELSE trimmed

\* A locator is built from a name given by a client: `query` keeps the name
\* given, `response` the name of the locator.
LocatorFrom(name) ==
    /\ action = "none"
    /\ action' = "locator"
    /\ query' = Some(name)
    /\ response' = sanitize_name(name)
    /\ UNCHANGED <<repo_vars, blobs, put, deleting, server_vars, chunked_writer, facade>>

\* A locator is built from the name of a locator (a name read back from
\* the metadata store).
LocatorFromName ==
    /\ action = "locator"
    /\ action' = "locator_from_name"
    /\ response' = sanitize_name(response)
    /\ UNCHANGED query
    /\ UNCHANGED <<repo_vars, blobs, put, deleting, server_vars, chunked_writer, facade>>

NextSanitize ==
    \/ action = "none" /\ \E name \in RawNames : LocatorFrom(name)
    \/ LocatorFromName

\* Locators built from given names, and again from their own names.
SpecSanitize == Init /\ [][NextSanitize]_vars

-----------------------------------------------------------------------------
(* repo/core.rs, repo/facades: facade calls running concurrently *)

\* Every facade call runs in a transaction of its own (Repository::
\* transaction), at the isolation level of the database, READ COMMITTED:
\* a statement reads the rows committed when it runs, and the rows a
\* transaction writes are seen by the others once it has committed. The
\* tables of the model are the committed rows; the rows written and not
\* yet committed are kept in `facade`.

\* A facade call returns.
FacadeReturns(call, request, res) ==
    /\ facade' = [facade EXCEPT ![call] = CallIdle]
    /\ action' = request
    /\ response' = res

\* A step of a facade call that is not its last.
FacadeGoes(call, state) ==
    /\ facade' = [facade EXCEPT ![call] = state]
    /\ UNCHANGED <<action, response>>

\* What the facade calls leave alone.
FacadeFrame == UNCHANGED <<put, deleting, query, server_vars, chunked_writer>>

\* The row of a sequence is referenced by a topic row inserted and not yet
\* committed: the insert holds a lock on it that a DELETE waits for.
ReferencedByInsert(sequence_id) ==
    /\ facade.create.pc \in {"metadata", "commit"}
    /\ facade.create.record.sequence_id = sequence_id

\* The row of a sequence is deleted by a transaction not yet committed: an
\* insert that references it waits for the end of that transaction.
DeletePending(sequence_id) ==
    /\ facade.delete.pc \in {"store", "commit"}
    /\ sequence_id \in facade.delete.deleted

\* ActionRequest::SequenceFinalize up to handle.lock(): the key is matched.
FinalizeBegin(name, key) ==
    /\ facade.lock.pc = "idle"
    /\ IF sequence_find_by_locator(name) = {}
       THEN FacadeReturns("lock", "sequence_finalize", "not_found")
       ELSE IF \A r \in sequence_find_by_locator(name) : r.sequence_uuid # key
       THEN FacadeReturns("lock", "sequence_finalize", "bad_key")
       ELSE FacadeGoes("lock", [pc |-> "sequence", name |-> name])
    /\ UNCHANGED <<repo_vars, blobs>>
    /\ FacadeFrame

\* FacadeSequence::lock: sequence_find_by_locator and the test of its lock.
LockReadSequence ==
    /\ facade.lock.pc = "sequence"
    /\ LET name == facade.lock.name
       IN  IF sequence_find_by_locator(name) = {}
           THEN FacadeReturns("lock", "sequence_finalize", "not_found")
           ELSE IF Locked(sequence_find_by_locator(name))
           THEN FacadeReturns("lock", "sequence_finalize", "sequence_locked")
           ELSE FacadeGoes("lock", [pc |-> "topics", name |-> name])
    /\ UNCHANGED <<repo_vars, blobs>>
    /\ FacadeFrame

\* FacadeSequence::lock: the topics of the sequence are read and each is
\* found locked, or not.
LockReadTopics ==
    /\ facade.lock.pc = "topics"
    /\ LET name == facade.lock.name
       IN  IF \E topic_loc \in sequence_find_all_topic_names(name) :
                  ~Locked(topic_find_by_locator(topic_loc))
           THEN FacadeReturns("lock", "sequence_finalize", "topic_unlocked")
           ELSE FacadeGoes("lock", [pc |-> "update", name |-> name])
    /\ UNCHANGED <<repo_vars, blobs>>
    /\ FacadeFrame

\* FacadeSequence::lock: sequence_lock, the UPDATE of the row, which the
\* other transactions do not see yet.
LockUpdate ==
    /\ facade.lock.pc = "update"
    /\ FacadeGoes("lock", [pc |-> "commit", name |-> facade.lock.name])
    /\ UNCHANGED <<repo_vars, blobs>>
    /\ FacadeFrame

\* FacadeSequence::lock: tx.commit(), which makes the update seen.
LockCommit ==
    /\ facade.lock.pc = "commit"
    /\ sequence_t' = sequence_lock(sequence_t, facade.lock.name)
    /\ FacadeReturns("lock", "sequence_finalize", "ok")
    /\ UNCHANGED <<topic_t, chunk_t, column_t, column_chunk_t, blobs>>
    /\ FacadeFrame

\* ActionRequest::TopicCreate up to handle.create(): the topic must not
\* exist.
CreateBegin(name, sequence_key) ==
    /\ facade.create.pc = "idle"
    /\ IF topic_find_by_locator(name) # {}
       THEN FacadeReturns("create", "topic_create", "already_exists")
       ELSE FacadeGoes("create", [pc |-> "parent", name |-> name,
                                  sequence |-> sequence_key])
    /\ UNCHANGED <<repo_vars, blobs>>
    /\ FacadeFrame

\* FacadeTopic::create: sequence_find_by_uuid, the test of the lock of the
\* sequence and of the name.
CreateReadParent ==
    /\ facade.create.pc = "parent"
    /\ LET name == facade.create.name
           found == sequence_find_by_uuid(facade.create.sequence)
       IN  IF found = {}
           THEN FacadeReturns("create", "topic_create", "not_found")
           ELSE LET srecord == CHOOSE s \in found : TRUE
                IN  IF srecord.locked
                    THEN FacadeReturns("create", "topic_create",
                                       "sequence_locked")
                    ELSE IF ~is_sub_resource(name, srecord.sequence_name)
                    THEN FacadeReturns("create", "topic_create", "unauthorized")
                    ELSE FacadeGoes("create",
                            [pc |-> "insert", name |-> name,
                             sequence_id |-> srecord.sequence_id])
    /\ UNCHANGED <<repo_vars, blobs>>
    /\ FacadeFrame

\* The row a topic row references exists (the foreign key of topic_t).
FkSequenceExists(sequence_id) == \E s \in sequence_t : s.sequence_id = sequence_id

\* FacadeTopic::create: topic_create, the INSERT of the row. It waits while
\* the row of the sequence is deleted by a transaction not yet committed,
\* and fails when that row is gone or the name is taken.
CreateInsert ==
    /\ facade.create.pc = "insert"
    /\ ~DeletePending(facade.create.sequence_id)
    /\ IF \/ ~FkSequenceExists(facade.create.sequence_id)
          \/ NameTaken(topic_find_by_locator(facade.create.name))
       THEN FacadeReturns("create", "topic_create", "repository_error")
       ELSE FacadeGoes("create",
                [pc |-> "metadata", name |-> facade.create.name,
                 record |-> [topic_id |-> NewId, topic_uuid |-> NewId,
                             sequence_id |-> facade.create.sequence_id,
                             topic_name |-> facade.create.name,
                             locked |-> FALSE]])
    /\ UNCHANGED <<repo_vars, blobs>>
    /\ FacadeFrame

\* FacadeTopic::create: metadata_write_to_store.
CreateMetadata ==
    /\ facade.create.pc = "metadata"
    /\ blobs' = write_bytes(blobs, metadata_path(facade.create.name),
                            <<"topic_metadata", OntologyTag>>)
    /\ FacadeGoes("create", [facade.create EXCEPT !.pc = "commit"])
    /\ UNCHANGED repo_vars
    /\ FacadeFrame

\* FacadeTopic::create: tx.commit(), which makes the row seen.
CreateCommit ==
    /\ facade.create.pc = "commit"
    /\ topic_t' = topic_t \cup {facade.create.record}
    /\ FacadeReturns("create", "topic_create", "ok")
    /\ UNCHANGED <<sequence_t, chunk_t, column_t, column_chunk_t, blobs>>
    /\ FacadeFrame

\* ActionRequest::SequenceDelete and ActionRequest::SequenceAbort up to
\* handle.delete(): the sequence must be unlocked, and for an abort the
\* key is matched.
DeleteBegin(request, name, key) ==
    /\ facade.delete.pc = "idle"
    /\ IF sequence_find_by_locator(name) = {}
       THEN FacadeReturns("delete", request, "not_found")
       ELSE IF Locked(sequence_find_by_locator(name))
       THEN FacadeReturns("delete", request, "sequence_locked")
       ELSE IF /\ request = "sequence_abort"
               /\ \A r \in sequence_find_by_locator(name) : r.sequence_uuid # key
       THEN FacadeReturns("delete", request, "bad_key")
       ELSE FacadeGoes("delete", [pc |-> "sequence", request |-> request,
                                  name |-> name])
    /\ UNCHANGED <<repo_vars, blobs>>
    /\ FacadeFrame

\* FacadeSequence::delete: sequence_find_by_locator, the test of the lock,
\* and topic_list.
DeleteReadTopics ==
    /\ facade.delete.pc = "sequence"
    /\ LET name == facade.delete.name
           request == facade.delete.request
       IN  IF sequence_find_by_locator(name) = {}
           THEN FacadeReturns("delete", request, "not_found")
           ELSE IF Locked(sequence_find_by_locator(name))
           THEN FacadeReturns("delete", request, "sequence_locked")
           ELSE FacadeGoes("delete",
                    [pc |-> "topics", request |-> request, name |-> name,
                     topics |-> sequence_find_all_topic_names(name)])
    /\ UNCHANGED <<repo_vars, blobs>>
    /\ FacadeFrame

\* FacadeSequence::delete: delete_unsafe of one topic of the list, in a
\* transaction of its own.
DeleteTopicUnsafe ==
    /\ facade.delete.pc = "topics"
    /\ \E topic_loc \in facade.delete.topics :
        /\ topic_t' = topic_delete(topic_t, topic_loc)
        /\ chunk_t' = CascadeChunks(chunk_t, topic_t')
        /\ column_chunk_t' = CascadeStats(column_chunk_t, chunk_t')
        /\ blobs' = delete_recursive(blobs, topic_loc)
        /\ FacadeGoes("delete",
                [facade.delete EXCEPT !.topics = @ \ {topic_loc}])
    /\ UNCHANGED <<sequence_t, column_t>>
    /\ FacadeFrame

\* FacadeSequence::delete: sequence_delete_unlocked, the DELETE of the row.
\* It waits while a topic row that references the row is inserted by a
\* transaction not yet committed.
DeleteSequenceRow ==
    /\ facade.delete.pc = "topics"
    /\ facade.delete.topics = {}
    /\ \A s \in sequence_find_by_locator(facade.delete.name) :
            ~ReferencedByInsert(s.sequence_id)
    /\ FacadeGoes("delete",
            [pc |-> "store", request |-> facade.delete.request,
             name |-> facade.delete.name,
             deleted |-> {s.sequence_id :
                            s \in sequence_t \ sequence_delete_unlocked(
                                        sequence_t, facade.delete.name)}])
    /\ UNCHANGED <<repo_vars, blobs>>
    /\ FacadeFrame

\* FacadeSequence::delete: store.delete_recursive of the sequence.
DeleteStore ==
    /\ facade.delete.pc = "store"
    /\ blobs' = delete_recursive(blobs, facade.delete.name)
    /\ FacadeGoes("delete", [facade.delete EXCEPT !.pc = "commit"])
    /\ UNCHANGED repo_vars
    /\ FacadeFrame

\* FacadeSequence::delete: tx.commit(); the rows that reference the row
\* deleted go with it.
DeleteCommit ==
    /\ facade.delete.pc = "commit"
    /\ sequence_t' =
            {s \in sequence_t : s.sequence_id \notin facade.delete.deleted}
    /\ topic_t' = CascadeTopics(topic_t, sequence_t')
    /\ chunk_t' = CascadeChunks(chunk_t, topic_t')
    /\ column_chunk_t' = CascadeStats(column_chunk_t, chunk_t')
    /\ FacadeReturns("delete", facade.delete.request, "ok")
    /\ UNCHANGED <<column_t, blobs>>
    /\ FacadeFrame

\* The topics created while a delete runs: one inside the sequence, one
\* whose name only continues the name of the sequence.
RaceTopicNames == {TopicSA, TopicSXA}

\* sequence_finalize and topic_create requests served concurrently.
NextLockCreate ==
    \/ \E name \in SeqNames : SequenceCreate(name)
    \/ \E name \in SeqNames, key \in SequenceKeys : FinalizeBegin(name, key)
    \/ LockReadSequence
    \/ LockReadTopics
    \/ LockUpdate
    \/ LockCommit
    \/ \E name \in TopicNames, key \in SequenceKeys : CreateBegin(name, key)
    \/ CreateReadParent
    \/ CreateInsert
    \/ CreateMetadata
    \/ CreateCommit

SpecLockCreate == Init /\ [][NextLockCreate]_vars

\* topic_create requests served concurrently with sequence_delete and
\* sequence_abort requests.
NextDeleteCreate ==
    \/ \E name \in SeqNames : SequenceCreate(name)
    \/ \E request \in {"sequence_delete", "sequence_abort"},
          name \in SeqNames, key \in SequenceKeys :
            DeleteBegin(request, name, key)
    \/ DeleteReadTopics
    \/ DeleteTopicUnsafe
    \/ DeleteSequenceRow
    \/ DeleteStore
    \/ DeleteCommit
    \/ \E name \in RaceTopicNames, key \in SequenceKeys : CreateBegin(name, key)
    \/ CreateReadParent
    \/ CreateInsert
    \/ CreateMetadata
    \/ CreateCommit

SpecDeleteCreate == Init /\ [][NextDeleteCreate]_vars

-----------------------------------------------------------------------------
(* pg_queries/topic_record.rs, compilers.rs, query/builder.rs: the *)
(* placeholders of the statement of a sequence and topic filter     *)

\* The most clauses a filter holds.
MaxClauses == 2

\* The places of a clause in a sequence and topic filter, in the order
\* topic_from_query_filter compiles them, with the column, the operand type
\* and the compiler of each.
FilterFields ==
    <<[field |-> "sequence.sequence_name", T |-> "Text",
       compiler |-> "SqlQueryCompiler"],
      [field |-> "sequence.creation_unix_tstamp", T |-> "Timestamp",
       compiler |-> "SqlQueryCompiler"],
      [field |-> "sequence.user_metadata", T |-> "Value",
       compiler |-> "JsonQueryCompiler"],
      [field |-> "topic.topic_name", T |-> "Text",
       compiler |-> "SqlQueryCompiler"],
      [field |-> "topic.creation_unix_tstamp", T |-> "Timestamp",
       compiler |-> "SqlQueryCompiler"],
      [field |-> "topic.ontology_tag", T |-> "Text",
       compiler |-> "SqlQueryCompiler"],
      [field |-> "topic.serialization_format", T |-> "Text",
       compiler |-> "SqlQueryCompiler"],
      [field |-> "topic.user_metadata", T |-> "Value",
       compiler |-> "JsonQueryCompiler"]>>

\* The operators drawn for a clause: with no operand, one, two, and one
\* the operand type does not support.
FilterOps(T) ==
    CASE T = "Text" ->
            {Op("Eq", Text(<<"a">>)), Op("Match", Text(<<"a">>)),
             In(<<Text(<<"a">>), Text(<<"b">>)>>), Ex,
             Op("Gt", Text(<<"a">>))}
      [] T = "Timestamp" ->
            {Op("Eq", Integer(1)),
             Between([min |-> Integer(1), max |-> Integer(2)]), Nex,
             Op("Match", Integer(1))}
      [] T = "Value" ->
            {Op("Eq", Integer(1)), Op("Neq", Boolean(TRUE)),
             Between([min |-> Integer(1), max |-> Integer(2)]), Ex,
             Op("Gt", Text(<<"a">>))}

\* A clause of a filter: its place and its operator.
FilterClauses ==
    UNION {{[place |-> i, op |-> op] : op \in FilterOps(FilterFields[i].T)} :
                i \in DOMAIN FilterFields}

\* The filters: the clauses in the order of their places; a column holds
\* one clause, a user_metadata map any number of them.
Filters ==
    UNION {{f \in [1..n -> FilterClauses] :
                \A i \in 1..(n - 1) :
                    \/ f[i].place < f[i + 1].place
                    \/ /\ f[i].place = f[i + 1].place
                       /\ FilterFields[f[i].place].compiler
                            = "JsonQueryCompiler"} :
            n \in 0..MaxClauses}

\* The values a compiled clause binds, one for each placeholder it
\* consumes.
CompiledClause_values(op) ==
    CASE op.op \in {"Ex", "Nex"} -> <<>>
      [] op.op = "Between" -> <<op.range.min, op.range.max>>
      [] op.op = "In" -> op.items
      [] op.op = "Match" -> <<Text(<<"%">> \o op.v.text \o <<"%">>)>>
      [] OTHER -> <<op.v>>

\* consume_placeholder, called n times from a counter.
consume_placeholder(placeholder_counter, n) ==
    [i \in 1..n |-> placeholder_counter + i - 1]

\* ClausesCompiler::new with SqlQueryCompiler::new and
\* JsonQueryCompiler::new.
ClausesCompiler_new ==
    [clauses |-> <<>>, values |-> <<>>, error |-> None,
     sql_fmt |-> 1, json_fmt |-> 1, place |-> 0]

\* ClausesCompiler::expr on the clause of a column, ClausesCompiler::filter
\* on the clauses of a user_metadata map: the clause is compiled with the
\* placeholders of its compiler, which are consumed, and its values are
\* appended. with_field_and_placeholder sets the counter of json_fmt to
\* sql_fmt.current_placeholder() before the first clause of a map.
ClausesCompiler_expr(self, clause) ==
    LET place == FilterFields[clause.place]
        sql == place.compiler = "SqlQueryCompiler"
        json_fmt == IF ~sql /\ clause.place # self.place
                    THEN self.sql_fmt ELSE self.json_fmt
        compiled ==
            IF sql
            THEN SqlQueryCompiler_compile_clause(place.T, place.field,
                                                 clause.op)
            ELSE JsonQueryCompiler_compile_clause(place.T, place.field,
                                                  clause.op)
        values == CompiledClause_values(clause.op)
        counter == IF sql THEN self.sql_fmt ELSE json_fmt
    IN  IF self.error.some THEN self
        ELSE IF ~compiled.ok
        THEN [self EXCEPT !.error = Some(compiled.err),
                          !.json_fmt = json_fmt, !.place = clause.place]
        ELSE [clauses |-> Append(self.clauses,
                            [field |-> place.field, op |-> clause.op.op,
                             placeholders |->
                                consume_placeholder(counter, Len(values)),
                             values |-> values]),
              values |-> self.values \o values,
              error |-> None,
              sql_fmt |-> IF sql THEN self.sql_fmt + Len(values)
                          ELSE self.sql_fmt,
              json_fmt |-> IF sql THEN json_fmt ELSE json_fmt + Len(values),
              place |-> clause.place]

\* The clauses of a filter compiled in their order.
RECURSIVE ClausesCompiler_all(_, _)
ClausesCompiler_all(self, filter) ==
    IF filter = <<>> THEN self
    ELSE ClausesCompiler_all(ClausesCompiler_expr(self, Head(filter)),
                             Tail(filter))

\* topic_from_query_filter through qb.compile(): the clauses of the WHERE
\* and the values bound to the statement, or the error of a clause.
topic_from_query_filter_compile(filter) ==
    LET qb == ClausesCompiler_all(ClausesCompiler_new, filter)
    IN  IF qb.error.some THEN Err(qb.error.v)
        ELSE Ok([clauses |-> qb.clauses, values |-> qb.values])

\* The statement of a filter is compiled.
CompileFilter(filter) ==
    /\ action' = "topic_from_query_filter"
    /\ query' = Some(filter)
    /\ response' = topic_from_query_filter_compile(filter)
    /\ UNCHANGED <<repo_vars, blobs, put, deleting, server_vars>>
    /\ UNCHANGED <<chunked_writer, facade>>

NextPlaceholders ==
    action = "none" /\ \E filter \in Filters : CompileFilter(filter)

\* The statement of every filter.
SpecPlaceholders == Init /\ [][NextPlaceholders]_vars

-----------------------------------------------------------------------------
(* Properties *)

\* The child topics of a sequence row.
TopicsOf(s) == {t \in topic_t : t.sequence_id = s.sequence_id}

\* C1: in every reachable state, every sequence whose locked flag is true
\* has only child topics whose locked flag is true.
C1_LockedSequenceHasOnlyLockedTopics ==
    \A s \in sequence_t : s.locked => \A t \in TopicsOf(s) : t.locked

\* A locked sequence with two child topics.
C1_Witness ==
    \E s \in sequence_t : s.locked /\ Cardinality(TopicsOf(s)) = 2

\* A step of the upload in flight, past the key check.
PutStep == put.pc # "idle" /\ put' # put

\* The step in which do_put returns.
PutReturn ==
    /\ put'.pc = "idle"
    /\ action' = "do_put"
    /\ <<put, action, response>> # <<put', action', response'>>

\* The upload in flight found chunk rows of its topic left by an earlier upload.
PriorUpload ==
    /\ put.pc \in {"metadata", "stream", "callback"}
    /\ \E c \in chunk_t : c.topic_id = put.topic_id

\* C2: a do-put addressed to a topic that is already locked (with the correct
\* key) fails and leaves the blobs, chunk rows and stats rows as they were;
\* likewise a do-put on a topic for which a prior put left an upload.
C2_PutOnLockedTopicFails ==
    [][(/\ PutStep
        /\ Locked(topic_find_by_locator(put.name)) \/ PriorUpload)
       => /\ ~(PutReturn /\ response' = "ok")
          /\ UNCHANGED <<blobs, chunk_t, column_chunk_t>>]_vars

\* C3: a do-put that returns an error or is cancelled changes no topic row, and
\* a topic row becomes locked only in the step that ends a do-put on that
\* topic with success.
C3_LockedOnlyOnSuccess ==
    [][/\ (PutReturn /\ response' # "ok") => UNCHANGED topic_t
       /\ \A t \in topic_t' :
            t.locked =>
                \/ \E u \in topic_t : u.topic_uuid = t.topic_uuid /\ u.locked
                \/ /\ put.pc = "lock"
                   /\ PutReturn
                   /\ response' = "ok"
                   /\ t.topic_name = put.name]_vars

\* An upload was cancelled after its chunk was committed: the topic has its
\* blob and its chunk row, and is unlocked.
C3_Witness ==
    /\ action = "do_put"
    /\ response = "cancelled"
    /\ \E t \in topic_t :
        /\ ~t.locked
        /\ datafile(t.topic_name, 0) \in DOMAIN blobs
        /\ \E c \in chunk_t : c.topic_id = t.topic_id

\* C4: whenever a do-put that received at least one batch locks its topic,
\* the chunk blob and the chunk row of that topic exist.
C4_LockedTopicHasChunk ==
    [][(put.pc = "lock" /\ PutReturn /\ response' = "ok"
            /\ put.chunk_serialized_number > 0)
       => \A t \in topic_t' :
            (t.topic_name = put.name /\ t.locked) =>
                /\ datafile(put.name, 0) \in DOMAIN blobs'
                /\ \E c \in chunk_t' : c.topic_id = t.topic_id]_vars

NoFieldNamed(schema, column) ==
    \A i \in 1..Len(schema) : schema[i].name # column

\* The schema has a field named exactly `column` and it is not int64.
FieldNotInt64(schema, column) ==
    \E i \in 1..Len(schema) :
        /\ schema[i].name = column
        /\ \A j \in 1..(i - 1) : schema[j].name # column
        /\ schema[i].data_type # "Int64"

\* The step, if it starts an upload, fails with missing_timestamp when the
\* schema has no field named `column` and with wrong_timestamp_type when that
\* field is not int64; these failures are the first thing an upload does, and
\* the step writes no blob and changes no row.
TimestampChecked(column) ==
    /\ (put.pc = "idle" /\ (put' # put \/ action' = "do_put")) =>
            \A schema \in Schemas :
                (\/ PutSchemaError(schema)
                 \/ \E name \in TopicNames, key \in Keys :
                        PutResourceId(name, key, schema)) =>
                    /\ NoFieldNamed(schema, column) =>
                            PutReturn /\ response' = "missing_timestamp"
                    /\ FieldNotInt64(schema, column) =>
                            PutReturn /\ response' = "wrong_timestamp_type"
                    /\ UNCHANGED <<repo_vars, blobs>>
    /\ (PutReturn /\ response' \in {"missing_timestamp", "wrong_timestamp_type"})
            => put.pc = "idle" /\ UNCHANGED <<repo_vars, blobs>>

C7_ChunksAppendOnly ==
    [][/\ (put.pc = "stream" /\ put'.pc = "callback")
            => put'.path \notin DOMAIN blobs
       /\ \A c \in chunk_t : c.data_file \in DOMAIN blobs
       /\ \A c, d \in chunk_t : c.data_file = d.data_file => c = d]_vars

\* C8: a sequence row or topic row that is locked stays locked for as long
\* as a row with its uuid exists.
C8_LockIsOneWay ==
    [][/\ \A t \in topic_t, u \in topic_t' :
            (t.locked /\ u.topic_uuid = t.topic_uuid) => u.locked
       /\ \A s \in sequence_t, u \in sequence_t' :
            (s.locked /\ u.sequence_uuid = s.sequence_uuid) => u.locked]_vars

\* topic_delete was just refused on a locked topic, under a locked sequence:
\* both rows are there and locked.
C8_Witness ==
    /\ action = "topic_delete"
    /\ response = "sequence_locked"
    /\ Locked(sequence_t)
    /\ Locked(topic_t)

\* C9: FacadeSequence::lock fails with SequenceLocked when the sequence is
\* already locked and with TopicUnlocked when a child topic is unlocked,
\* changing no row in either case; otherwise it sets the locked flag of the
\* sequence and changes nothing else.
C9_SequenceLock ==
    [][\A name \in SeqNames :
        (/\ action' = "sequence_finalize"
         /\ \E s \in sequence_t : s.sequence_name = name
         /\ FacadeSequence_lock(name))
        => LET s == CHOOSE s \in sequence_t : s.sequence_name = name
           IN  IF s.locked
               THEN response' = "sequence_locked" /\ UNCHANGED <<repo_vars, blobs>>
               ELSE IF \E t \in TopicsOf(s) : ~t.locked
               THEN response' = "topic_unlocked" /\ UNCHANGED <<repo_vars, blobs>>
               ELSE /\ response' = "ok"
                    /\ sequence_t' = (sequence_t \ {s}) \cup {[s EXCEPT !.locked = TRUE]}
                    /\ UNCHANGED <<topic_t, chunk_t, column_t, column_chunk_t,
                                   blobs>>]_vars

\* sequence_finalize was refused because one of two child topics is unlocked.
C9_Witness ==
    /\ action = "sequence_finalize"
    /\ response = "topic_unlocked"
    /\ \E s \in sequence_t :
        /\ ~s.locked
        /\ \E t \in TopicsOf(s) : t.locked
        /\ \E t \in TopicsOf(s) : ~t.locked

C12_DeleteAllOrNothing ==
    [][\A name \in SeqNames, deleted \in SUBSET TopicNames :
        (/\ action' \in {"sequence_delete", "sequence_abort"}
         /\ response' \in {"repository_error", "store_error"}
         /\ SequenceDeleteError(name, deleted))
        => /\ sequence_t \subseteq sequence_t'
           /\ topic_t \subseteq topic_t']_vars

\* C13: FacadeTopic::create, called for a topic name with no row and with the
\* uuid of an existing sequence, fails with sequence_locked when that sequence
\* is locked and with unauthorized when the topic name does not start with
\* the name of that sequence, inserting no topic row and writing no blob;
\* when it succeeds the rows it adds are unlocked.
C13_TopicCreateRefused ==
    [][\A name \in WideTopicNames, key \in SequenceKeys :
        (/\ action' = "topic_create"
         /\ topic_find_by_locator(name) = {}
         /\ \E s \in sequence_t : s.sequence_uuid = key
         /\ TopicCreate(name, key))
        => LET s == CHOOSE s \in sequence_t : s.sequence_uuid = key
           IN  /\ s.locked =>
                    response' = "sequence_locked" /\ UNCHANGED <<topic_t, blobs>>
               /\ (~s.locked /\ ~StartsWith(name, s.sequence_name)) =>
                    response' = "unauthorized" /\ UNCHANGED <<topic_t, blobs>>
               /\ response' = "ok" =>
                    /\ \E t \in topic_t' \ topic_t : t.topic_name = name
                    /\ \A t \in topic_t' \ topic_t : ~t.locked]_vars

\* topic_create was just refused as unauthorized, with the key of an unlocked
\* sequence, while another sequence is locked.
C13_Witness ==
    /\ action = "topic_create"
    /\ response = "unauthorized"
    /\ \E s \in sequence_t : ~s.locked
    /\ \E s \in sequence_t : s.locked

\* The topic name is the sequence name followed by `/` and a further component.
IsChildName(topic_name, sequence_name) ==
    /\ Len(topic_name) > Len(sequence_name) + 1
    /\ SubSeq(topic_name, 1, Len(sequence_name)) = sequence_name
    /\ topic_name[Len(sequence_name) + 1] = "/"

\* C14: the name of every topic row is the name of its parent sequence followed
\* by `/` and a further component, and topic_create is refused for a name that
\* is not.
C14_TopicNameExtendsSequenceName ==
    [][/\ \A t \in topic_t' : \A s \in sequence_t' :
            s.sequence_id = t.sequence_id =>
                IsChildName(t.topic_name, s.sequence_name)
       /\ \A name \in WideTopicNames, key \in SequenceKeys :
            (/\ action' = "topic_create"
             /\ TopicCreate(name, key)
             /\ \E s \in sequence_t :
                    s.sequence_uuid = key /\ ~IsChildName(name, s.sequence_name))
            => response' # "ok" /\ UNCHANGED topic_t]_vars

\* C15: when a topic_delete request comes to delete a topic, either the topic
\* is unlocked and its row and all the blobs under its path are removed
\* together, or the topic is locked and its row and the blobs stay as they
\* are, whatever an upload did to the topic while the request was in flight.
C15_LockedTopicDataKept ==
    [][TopicDeleteRun
       => LET rows == topic_find_by_locator(deleting)
          IN  \/ /\ \A t \in rows : ~t.locked
                 /\ \A t \in topic_t' : t.topic_name # deleting
                 /\ \A p \in DOMAIN blobs' : p.dir # deleting
              \/ /\ \E t \in rows : t.locked
                 /\ UNCHANGED <<topic_t, blobs>>]_vars

-----------------------------------------------------------------------------
(* Properties of the query endpoint *)

\* The last request is a query that returned a result, with an ontology
\* filter of at least one clause.
OntologyQueryReturned ==
    /\ action = "query"
    /\ response.ok
    /\ query.v.ontology.some
    /\ DOMAIN query.v.ontology.v # {}

\* The topic names of a result.
ResultTopics(groups) == UNION {Items(g.topics) : g \in groups}

\* A row passes a clause of the ontology filter of a request.
RowSatisfies(op, x) ==
    CASE op.op = "Eq" -> x = Payload(op.v)
      [] op.op = "Neq" -> x # Payload(op.v)
      [] op.op = "Leq" -> x <= Payload(op.v)
      [] op.op = "Geq" -> x >= Payload(op.v)
      [] op.op = "Lt" -> x < Payload(op.v)
      [] op.op = "Gt" -> x > Payload(op.v)
      [] op.op = "Between" -> Payload(op.min) <= x /\ x <= Payload(op.max)
      [] op.op \in {"Ex", "Nex"} -> TRUE

\* A chunk of the topic holds a row that passes every clause of the filter.
HasMatchingRow(t, filter) ==
    \E c \in chunk_t :
        /\ c.topic_id = t.topic_id
        /\ \E i \in 1..Len(blobs[c.data_file]) :
                \A f \in DOMAIN filter :
                    RowSatisfies(filter[f], blobs[c.data_file][i][f.field])

\* A topic is among the candidates of the sequence and topic groups of a
\* request: the names asked for, if any, are its own.
IsCandidate(t, request) ==
    LET named(group) == group.some /\ group.v.name.some
    IN  /\ named(request.sequence) =>
                \E s \in sequence_t :
                    /\ s.sequence_id = t.sequence_id
                    /\ Payload(request.sequence.v.name.v.v) = s.sequence_name
        /\ named(request.topic) =>
                Payload(request.topic.v.name.v.v) = t.topic_name

\* C16: when a query with an ontology filter returns a result, a topic
\* (among the candidates of the sequence and topic filter, if there is one)
\* is in the result if and only if one of its chunks holds a row that
\* satisfies every clause of the ontology filter; pruning never discards a
\* chunk that holds a matching row.
C16_TopicInResultIffMatchingRow ==
    OntologyQueryReturned =>
        \A t \in topic_t :
            IsCandidate(t, query.v) =>
                (t.topic_name \in ResultTopics(response.v)
                    <=> HasMatchingRow(t, query.v.ontology.v))

\* A group of a request holds no clause: it is absent, or present and empty.
NoNameClause(group) == ~group.some \/ ~group.v.name.some

NoOntologyClause(group) == ~group.some \/ DOMAIN group.v = {}

\* C17: a query whose sequence, topic and ontology groups hold no clause
\* (each absent, or present and empty) returns the empty result set,
\* whatever the catalog holds.
C17_NoFilterReturnsEmpty ==
    (/\ action = "query"
     /\ NoNameClause(query.v.sequence)
     /\ NoNameClause(query.v.topic)
     /\ NoOntologyClause(query.v.ontology))
        => response = Ok({})

\* A sequence or topic group of a request names a clause.
Named(group) == group.some /\ group.v.name.some

\* The last request is a query that returned a result, with a sequence or
\* topic filter (a clause in one of the two groups) and an ontology group.
FilteredOntologyQueryReturned ==
    /\ action = "query"
    /\ response.ok
    /\ Named(query.v.sequence) \/ Named(query.v.topic)
    /\ query.v.ontology.some

\* C18: when a query carries a sequence or topic filter together with an
\* ontology filter, every topic of the result is one of the topics the
\* sequence/topic filter selects; if it selects none the result is empty,
\* even when chunks of other topics satisfy the ontology filter.
C18_ResultWithinSelectedTopics ==
    FilteredOntologyQueryReturned =>
        \A n \in ResultTopics(response.v) :
            \E t \in topic_t : t.topic_name = n /\ IsCandidate(t, query.v)

\* A query whose sequence filter selects no topic returned the empty
\* result, while a chunk of the catalog holds a row satisfying its ontology
\* filter and passes the pruning.
C18_Witness ==
    /\ FilteredOntologyQueryReturned
    /\ response.v = {}
    /\ \A t \in topic_t : ~IsCandidate(t, query.v)
    /\ DOMAIN query.v.ontology.v # {}
    /\ chunks_from_filters(query_filter_from_serde_value(query.v).v.ontology.v,
                           {}).v # {}
    /\ \E t \in topic_t : HasMatchingRow(t, query.v.ontology.v)

-----------------------------------------------------------------------------
(* Properties of the filter builder and of the compilers *)

\* The types of the operands of an operator of type Op<T>.
OperandTypesOf(T, op) ==
    LET values == IF op.op \in {"Ex", "Nex"} THEN {}
                  ELSE IF op.op = "Between" THEN {op.range.min, op.range.max}
                  ELSE IF op.op = "In"
                  THEN {op.items[i] : i \in 1..Len(op.items)}
                  ELSE {op.v}
    IN  IF T = "Value" THEN {v.type : v \in values} ELSE {T}

\* The support matrix: the operators allowed on an operand of a type.
MatrixAllows(type, kind) ==
    CASE kind \in {"Eq", "Neq", "Ex", "Nex", "In"} -> TRUE
      [] kind \in {"Leq", "Geq", "Lt", "Gt", "Between"} ->
            type \in {"Integer", "Float", "Timestamp"}
      [] kind = "Match" -> type = "Text"

\* C19: whenever one of the compilers (plain SQL, JSON user_metadata, chunk
\* pruning) is given an operator on an operand type the support matrix
\* does not allow, it returns the unsupported-operation error; no such
\* clause is compiled.
C19_UnsupportedOpFails ==
    (/\ action = "compile"
     /\ \E type \in OperandTypesOf(query.v.T, query.v.op) :
            ~MatrixAllows(type, query.v.op.op))
        => response = Err("unsupported_operation")

\* The last step converted a $between of the DSL whose bounds its field
\* accepts and that can be compared: two numbers (integer or float), two
\* texts or two booleans.
Numeric(v) == v.type \in {"Integer", "Float"}

BetweenConverted ==
    /\ action = "marshal"
    /\ query.v.op.op = "Between"
    /\ query.v.T \in {"Value", "Timestamp"}
    /\ ~WrongType(query.v.T, query.v.op.min)
    /\ ~WrongType(query.v.T, query.v.op.max)
    /\ \/ Numeric(query.v.op.min) /\ Numeric(query.v.op.max)
       \/ query.v.op.min.type = query.v.op.max.type

\* a is greater than b: as numbers, as texts, as booleans.
Greater(a, b) ==
    IF Numeric(a) THEN a.v > b.v
    ELSE IF a.type = "Text" THEN str_gt(a.text, b.text)
    ELSE a.bool /\ ~b.bool

\* C20: building a filter with $between [min, max] fails with the
\* empty-range error if and only if min is greater than max, for every
\* pair of bounds the DSL accepts, one integer and one float included; when
\* it succeeds the range stored has min <= max.
C20_EmptyRangeIffMinGreater ==
    BetweenConverted =>
        /\ response = Err("empty_range")
                <=> Greater(query.v.op.min, query.v.op.max)
        /\ response.ok =>
                ~Greater(response.v.range.min, response.v.range.max)

-----------------------------------------------------------------------------
(* Properties of the server process *)

\* C21: every SIGINT delivered after the signal listener is installed
\* eventually makes the RPC server stop and start_and_wait return, also when
\* it arrives while the repository is being initialised, before the RPC
\* server waits on the shutdown notifier.
C21_SigintStopsServer == (server.sigints > 0) ~> (server.pc = "returned")

\* A SIGINT flagged while the server waits on the notifier stops it.
SigintWhileServingStopsServer ==
    (server.pending /\ server.waiters) ~> (server.pc = "returned")

\* The rows of the default layer.
DefaultLayers == layer_find_by_locator(layer_t, DEFAULT_LAYER_NAME)

\* C25: layer bootstrap is idempotent: once a start-up has initialised the
\* repository exactly one layer row with the default name exists, however
\* many start-ups came before, and a start-up that finds the row present
\* inserts nothing.
C25_BootstrapIdempotent ==
    /\ [](server.pc \in {"initialised", "serving", "stopped"}
            => Cardinality(DefaultLayers) = 1)
    /\ [][server.pc = "bootstrapped" /\ DefaultLayers # {}
            => layer_t' = layer_t]_vars

\* A later start-up has run the bootstrap on a store that holds the default
\* layer.
C25_Witness ==
    /\ server.starts > 1
    /\ server.pc = "bootstrapped"
    /\ DefaultLayers # {}
    /\ server.tx = layer_t

-----------------------------------------------------------------------------
(* Properties of creates and aborts *)

\* C22: creating a sequence whose name already exists fails, with
\* already_exists at the action level and with an error at the facade level,
\* and leaves the row of the sequence (uuid, lock state) and the blobs
\* unchanged, each time it is repeated.
C22_CreateExistingRefused ==
    [][\A name \in SeqNames :
        sequence_find_by_locator(name) # {}
        => /\ SequenceCreate(name)
                => response' = "already_exists" /\ UNCHANGED <<repo_vars, blobs>>
           /\ (\E fault \in CreateFaults : SequenceCreateError(name, fault))
                => response' # "ok" /\ UNCHANGED <<repo_vars, blobs>>]_vars

\* The create of an existing, locked sequence with a metadata blob was just
\* refused.
C22_Witness ==
    /\ action = "sequence_create"
    /\ response = "already_exists"
    /\ \E s \in sequence_t :
        /\ s.locked
        /\ metadata_path(s.sequence_name) \in DOMAIN blobs

\* C23: sequence_abort is idempotent: aborting a sequence that has been
\* removed succeeds and changes nothing.
C23_AbortRemovedIsNoOp ==
    [][\A name \in SeqNames, key \in SequenceKeys :
        (sequence_find_by_locator(name) = {} /\ SequenceAbort(name, key))
        => response' = "ok" /\ UNCHANGED <<repo_vars, blobs>>]_vars

\* A request or a failing call that creates a sequence or a topic.
CreateCall ==
    \/ \E name \in SeqNames : SequenceCreate(name)
    \/ \E name \in SeqNames, fault \in CreateFaults :
            SequenceCreateError(name, fault)
    \/ \E name \in TopicNames, key \in SequenceKeys : TopicCreate(name, key)
    \/ \E name \in TopicNames, key \in SequenceKeys, fault \in CreateFaults :
            TopicCreateError(name, key, fault)

\* C24: a sequence create or topic create that returns an error leaves no
\* row committed by the call and no metadata.json written by the call.
C24_FailedCreateLeavesNothing ==
    [][(CreateCall /\ response' # "ok")
        => UNCHANGED <<sequence_t, topic_t, blobs>>]_vars

-----------------------------------------------------------------------------
(* Properties of the chunks of an upload *)

\* The data blobs under the name of a topic.
DataBlobs(name) ==
    {p \in DOMAIN blobs : p.dir = name /\ p.file[1] = "data"}

\* The step in which the upload reaches the end of its stream and finalizes
\* its writer.
PutFinalize == put.pc = "stream" /\ put'.pc \in {"callback", "lock"}

-----------------------------------------------------------------------------
(* Properties of the chunk pruning and of the support matrix *)

\* The statistics a chunk can carry for a numeric column: min <= max, around
\* and within the numbers of the filters.
ChunkIntervals ==
    {st \in [min_value : 0..(MaxValue + 1), max_value : 0..(MaxValue + 1)] :
        st.min_value <= st.max_value}

\* The range-overlap test of the table, per operator.
Overlaps(op, st) ==
    CASE op.op = "Eq" -> st.min_value <= op.v.v /\ op.v.v <= st.max_value
      [] op.op = "Lt" -> st.min_value < op.v.v
      [] op.op = "Leq" -> st.min_value <= op.v.v
      [] op.op = "Gt" -> st.max_value > op.v.v
      [] op.op = "Geq" -> st.max_value >= op.v.v
      [] op.op = "Between" ->
            st.min_value <= op.range.max.v /\ st.max_value >= op.range.min.v

\* The last step compiled a chunk-pruning clause for an operator on numbers.
NumericPruningClauseCompiled ==
    /\ action = "compile"
    /\ query.v.compiler = "ChunkQueryBuilder"
    /\ response.ok
    /\ \A type \in OperandTypesOf(query.v.T, query.v.op) :
            type \in {"Integer", "Float"}

\* C27: the pruning predicate compiled for an ontology clause is the
\* range-overlap test of the table: $eq v selects a chunk iff min <= v <= max,
\* $lt v iff min < v, $leq v iff min <= v, $gt v iff max > v, $geq v iff
\* max >= v, $between [a, b] iff min <= b and max >= a.
C27_PruningIsRangeOverlap ==
    NumericPruningClauseCompiled
        => \A st \in ChunkIntervals :
                StatsWhere(response.v, st) <=> Overlaps(query.v.op, st)

\* The same for every operator but $eq.
PruningIsRangeOverlapButEq ==
    (NumericPruningClauseCompiled /\ query.v.op.op # "Eq")
        => \A st \in ChunkIntervals :
                StatsWhere(response.v, st) <=> Overlaps(query.v.op, st)

\* C28: Op::is_supported_op agrees with the support matrix for every
\* operator and operand type, for typed columns and for Value operands
\* alike (text: eq/neq, in, match; integer, float, timestamp: eq/neq,
\* ordering with between, in; boolean: eq/neq, in; $ex and $nex always), and
\* it returns a verdict for every operator, a $in with an empty list
\* included.
C28_IsSupportedOpIsTheMatrix ==
    action = "is_supported_op"
        => /\ response.ok
           /\ response.v
                <=> \A type \in OperandTypesOf(query.v.T, query.v.op) :
                        MatrixAllows(type, query.v.op.op)

\* The same for the operators other than $in and $between.
IsSupportedOpIsTheMatrixButIn ==
    (action = "is_supported_op" /\ query.v.op.op \notin {"In", "Between"})
        => /\ response.ok
           /\ response.v
                <=> \A type \in OperandTypesOf(query.v.T, query.v.op) :
                        MatrixAllows(type, query.v.op.op)

-----------------------------------------------------------------------------
(* Properties of the ChunkedWriter *)

\* The indexes of the chunks persisted under the path of the writer.
PersistedIndexes == {p.file[2] : p \in DataBlobs(TopicSA)}

\* A step of the ChunkedWriter keeps the order of a chunk's life: the
\* index of a chunk is the number of finalize calls that found a writer
\* before it, a path is written once, the callback of a chunk follows its
\* blob, and a path is allocated only between two calls.
ChunkLifeStep ==
    /\ chunked_writer'.found # chunked_writer.found =>
            chunked_writer'.path = datafile(TopicSA, chunked_writer'.found - 1)
    /\ blobs' # blobs =>
            /\ chunked_writer.path \notin DOMAIN blobs
            /\ chunked_writer.path \in DOMAIN blobs'
    /\ chunked_writer'.callbacks # chunked_writer.callbacks =>
            chunked_writer.path \in DOMAIN blobs
    /\ chunked_writer'.path \notin {chunked_writer.path, NoPath} =>
            chunked_writer.pc = "ready"

\* C29: over any sequence of write and finalize calls, the k-th finalize
\* that finds an active writer stores its blob at the path for index k-1,
\* the persisted blobs are numbered 0, 1, 2, ... with no gap and no repeat,
\* the callback of a chunk runs after the blob of the chunk was written and
\* returns before the next path is allocated, and the counter grows by one
\* per persisted chunk.
C29_ChunksNumberedInOrder ==
    /\ [][ChunkLifeStep]_vars
    /\ [](PersistedIndexes = 0..(Cardinality(PersistedIndexes) - 1))
    /\ [](chunked_writer.pc = "ready" =>
            chunked_writer.chunk_serialized_number
                = Cardinality(PersistedIndexes))

\* The part of C29 that does not count the persisted chunks.
ChunkIndexCountsFinalizes == [][ChunkLifeStep]_vars

\* A finalize call with no write since the creation or the previous
\* finalize writes no blob, runs no callback and leaves the counter alone.
EmptyFinalizeStep ==
    (chunked_writer.pc = "ready" /\ chunked_writer.since = <<>>
        /\ action' = "finalize")
    => (/\ blobs' = blobs
        /\ chunked_writer'.callbacks = chunked_writer.callbacks
        /\ chunked_writer'.chunk_serialized_number
            = chunked_writer.chunk_serialized_number)

\* The blob of a chunk is the batches written since the previous finalize,
\* in the order of their arrival.
ChunkContentStep ==
    blobs' # blobs => blobs'[chunked_writer.path] = chunked_writer.since

\* C30: the ChunkedWriter holds an inner writer only after a write that
\* followed its creation or a finalize; a finalize with no write since the
\* creation or the previous finalize writes no blob, runs no callback and
\* leaves the counter unchanged; and each chunk holds exactly the batches
\* written since the previous finalize, in the order of their arrival.
C30_ChunkHoldsBatchesSinceFinalize ==
    /\ [](chunked_writer.writer.some => chunked_writer.since # <<>>)
    /\ [][EmptyFinalizeStep]_vars
    /\ [][ChunkContentStep]_vars

\* The parts of C30 that hold whatever the calls return.
LazyWriterAndEmptyFinalize ==
    /\ [](chunked_writer.writer.some => chunked_writer.since # <<>>)
    /\ [][EmptyFinalizeStep]_vars

-----------------------------------------------------------------------------
(* Properties of the chunk-created callback *)

\* The chunk-created callback of the upload returns an error.
CallbackFails ==
    /\ put.pc = "callback"
    /\ put'.pc = "idle"
    /\ response' = "repository_error"

-----------------------------------------------------------------------------
(* Properties of the statistics *)

\* The values evaluated so far, and those of them that are present.
Evaluated == query.v

Present == {Evaluated[i].v : i \in {j \in 1..Len(Evaluated) : Evaluated[j].some}}

\* The same values in another order.
Reorderings ==
    {[i \in 1..Len(Evaluated) |-> Evaluated[p[i]]] :
        p \in {q \in [1..Len(Evaluated) -> 1..Len(Evaluated)] :
                \A i, j \in 1..Len(Evaluated) : q[i] = q[j] => i = j}}

\* has_null tells whether a value was absent.
HasNullRight ==
    response.has_null <=> (\E i \in 1..Len(Evaluated) : ~Evaluated[i].some)

\* The statistics of a literal column are right for the texts given.
TextStatsRight(texts) ==
    /\ HasNullRight
    /\ texts # {} =>
        /\ response.min \in texts
        /\ \A t \in texts : ~str_gt(response.min, t)
        /\ response.max \in texts
        /\ \A t \in texts : ~str_gt(t, response.max)
    /\ \A vals \in Reorderings :
            TextStats_eval_all(TextStats_new, vals) = response

\* C32: after TextStats has evaluated any values, has_null tells whether
\* one was absent, min and max are the smallest and the largest of the
\* present texts in the lexicographic order, the empty text included, and
\* the order of the values makes no difference.
C32_TextStatsMinMax ==
    action = "text_stats" => TextStatsRight(Present)

\* The same for columns with no empty text.
TextStatsMinMaxNoEmpty ==
    (action = "text_stats" /\ <<>> \notin Present) => TextStatsRight(Present)

\* The present values that are numbers.
Numbers == {v \in Present : ~v.nan}

\* The statistics of a numeric column are right for the values given.
NumericStatsRight ==
    /\ HasNullRight
    /\ response.has_nan <=> (\E v \in Present : v.nan)
    /\ IF Numbers = {}
       THEN /\ response.min = NUMERIC_MIN_PLACEHOLDER
            /\ response.max = NUMERIC_MAX_PLACEHOLDER
       ELSE /\ response.min \in Numbers
            /\ \A v \in Numbers : ~f64_gt(response.min, v)
            /\ response.max \in Numbers
            /\ \A v \in Numbers : ~f64_gt(v, response.max)
    /\ \A vals \in Reorderings :
            NumericStats_eval_all(NumericStats_new, vals) = response

\* C33: after NumericStats has evaluated any values, has_null tells whether
\* one was absent, has_nan whether one was NaN, min and max are the
\* smallest and the largest of the present numbers and stay at their
\* placeholders when there is none, and the order of the values makes no
\* difference.
C33_NumericStatsMinMax == action = "numeric_stats" => NumericStatsRight

\* The same for columns whose numbers are all finite.
NumericStatsMinMaxFinite ==
    (action = "numeric_stats" /\ Numbers \cap {INFINITY, NEG_INFINITY} = {})
        => NumericStatsRight

-----------------------------------------------------------------------------
(* Properties of the schema flattening *)

\* The names of a path joined with dots.
RECURSIVE DotJoined(_)
DotJoined(names) ==
    IF Len(names) = 1 THEN names[1]
    ELSE names[1] \o <<".">> \o DotJoined(Tail(names))

\* The leaves of a sequence of fields in depth-first pre-order of the
\* declaration order, each with its path from the root joined with dots;
\* only the structs are descended.
RECURSIVE LeavesOf(_, _)
LeavesOf(path, fields) ==
    IF fields = <<>> THEN <<>>
    ELSE LET field == Head(fields)
             here == Append(path, field.name)
         IN  (IF field.data_type = "Struct"
              THEN LeavesOf(here, field.children)
              ELSE <<[name |-> DotJoined(here), field |-> field]>>)
             \o LeavesOf(path, Tail(fields))

\* A top-level struct of the fields has the empty name.
EmptyNamedRootStruct(fields) ==
    \E i \in 1..Len(fields) :
        /\ fields[i].data_type = "Struct"
        /\ fields[i].name = <<>>
        /\ fields[i].children # <<>>

\* The iterator has returned the first leaves of the schema in their order
\* and under their names, no struct among them, and all of them once its
\* queue is empty or it has returned None.
FlattenedRight ==
    LET expected == LeavesOf(<<>>, query.v)
        yielded == response.yielded
    IN  /\ Len(yielded) <= Len(expected)
        /\ yielded = SubSeq(expected, 1, Len(yielded))
        /\ \A i \in 1..Len(yielded) : yielded[i].field.data_type # "Struct"
        /\ response.field_queue = <<>> => yielded = expected
        /\ response.done => response.field_queue = <<>>

\* A call of next() returns one more item or None: the iterator is through
\* after at most one call more than the schema has leaves.
NextProgress ==
    action' = "next" =>
        \/ Len(response'.yielded) = Len(response.yielded) + 1
        \/ response'.done

\* C34: for every nested schema the flattening iterator terminates and
\* yields each leaf field once, in depth-first pre-order of the declaration
\* order, named by the dot-joined path from the root; structs are descended
\* and never yielded, List, Map and the other types are yielded and never
\* descended.
C34_FlattenIsDepthFirstLeaves ==
    /\ [](action \in {"squashed_iter", "next"} => FlattenedRight)
    /\ [][NextProgress]_vars

\* The same for the schemas with no top-level struct of the empty name.
FlattenNamedRoots ==
    /\ []((action \in {"squashed_iter", "next"}
            /\ ~EmptyNamedRootStruct(query.v)) => FlattenedRight)
    /\ [][NextProgress]_vars

-----------------------------------------------------------------------------
(* Properties of the names *)

\* C35: sanitizing is idempotent: the locator built from the name of a
\* locator has the name of that locator, sanitize(sanitize(n)) = sanitize(n).
C35_SanitizeIdempotent ==
    action = "locator_from_name" => response = sanitize_name(query.v)

\* The same for the names that, trimmed, start with no more than one
\* separator, not followed by white space.
SanitizeIdempotentOneSeparator ==
    (/\ action = "locator_from_name"
     /\ LET trimmed == trim(query.v)
        IN  Len(trimmed) >= 2 /\ trimmed[1] = "/" => trimmed[2] = "a")
        => response = sanitize_name(query.v)

-----------------------------------------------------------------------------
(* Properties of the concurrent facade calls *)

\* C36: under any interleaving of the steps of a sequence_finalize with
\* the steps of a topic_create for the same sequence, no sequence is locked
\* while one of its topics is unlocked.
C36_LockedSequenceHasLockedTopics ==
    \A s \in sequence_t : \A t \in topic_t :
        (s.locked /\ t.sequence_id = s.sequence_id) => t.locked

\* Each call respects what is committed when it reads: a topic_create that
\* reads its parent locked is refused, and a sequence_finalize that reads an
\* unlocked topic of the sequence is refused.
CommittedLockRespected ==
    [][/\ (/\ facade.create.pc = "parent"
           /\ facade'.create # facade.create
           /\ Locked(sequence_find_by_uuid(facade.create.sequence)))
            => (facade'.create.pc = "idle" /\ response' = "sequence_locked")
       /\ (/\ facade.lock.pc = "topics"
           /\ facade'.lock # facade.lock
           /\ \E t \in topic_t : \E r \in sequence_find_by_locator(
                                                    facade.lock.name) :
                    t.sequence_id = r.sequence_id /\ ~t.locked)
            => (facade'.lock.pc = "idle" /\ response' = "topic_unlocked")]_vars

\* A delete of a sequence returns Ok.
DeleteSucceeds ==
    /\ facade.delete.pc = "commit"
    /\ facade'.delete.pc = "idle"
    /\ response' = "ok"

\* C37: under any interleaving of a topic_create with a sequence_delete or
\* a sequence_abort of its parent, every committed topic row refers to an
\* existing sequence row, and after a successful delete no topic row and no
\* blob of the sequence remains.
C37_NoOrphanTopic ==
    /\ [](\A t \in topic_t : \E s \in sequence_t : s.sequence_id = t.sequence_id)
    /\ [][DeleteSucceeds =>
            /\ sequence_find_by_locator(facade.delete.name) # {}
            /\ \A t \in topic_t' : \A s \in sequence_find_by_locator(
                                                facade.delete.name) :
                    t.sequence_id # s.sequence_id
            /\ DOMAIN blobs' = {}]_vars

\* The same for the topics named inside their sequence: the blobs that
\* remain are those of the topic whose name only continues the name of the
\* sequence.
NoOrphanTopicInside ==
    /\ [](\A t \in topic_t : \E s \in sequence_t : s.sequence_id = t.sequence_id)
    /\ [][DeleteSucceeds =>
            /\ \A t \in topic_t' : \A s \in sequence_find_by_locator(
                                                facade.delete.name) :
                    t.sequence_id # s.sequence_id
            /\ \A p \in DOMAIN blobs' : p.dir = TopicSXA]_vars

-----------------------------------------------------------------------------
(* Properties of an upload that fails before the end of the stream *)

\* A step of an upload that has not reached the end of its stream.
PutBeforeEndOfStream ==
    /\ put' # put
    /\ put.pc \in {"idle", "metadata", "stream"}
    /\ put'.pc \in {"metadata", "stream", "idle"}

-----------------------------------------------------------------------------
(* Properties of the groups of a query result *)

\* The groups of a result list each sequence once, each topic once within
\* its sequence, and each topic under the sequence of its row.
GroupsRight(groups) ==
    \A g \in groups :
        /\ \A h \in groups : h.sequence = g.sequence => h = g
        /\ \A i, j \in 1..Len(g.topics) : g.topics[i] = g.topics[j] => i = j
        /\ \A i \in 1..Len(g.topics) :
                \E t \in topic_t : \E s \in sequence_t :
                    /\ t.topic_name = g.topics[i]
                    /\ s.sequence_name = g.sequence
                    /\ t.sequence_id = s.sequence_id

\* C39: the result of a query lists each sequence at most once and each
\* topic at most once within its sequence, also when only an ontology
\* filter is given and several chunks of the same topic match, and every
\* topic listed is grouped under its own parent sequence.
C39_ResultListsOnce ==
    (action = "query" /\ response.ok) => GroupsRight(response.v)

\* The same with the topics taken as a set: a topic listed twice is the
\* only fault of the groups.
ResultGroupsOwnTopics ==
    (action = "query" /\ response.ok) =>
        GroupsRight({[sequence |-> g.sequence,
                      topics |-> AsVec(Items(g.topics))] : g \in response.v})

-----------------------------------------------------------------------------
(* Properties of the placeholders of a compiled filter *)

\* The placeholders of the clauses are $1..$n, none is used by two
\* operands, and the value bound at each is the operand it stands for.
PlaceholdersRight(compiled) ==
    LET uses == {<<i, k>> \in (DOMAIN compiled.clauses) \X (1..MaxClauses + 1) :
                    k \in DOMAIN compiled.clauses[i].placeholders}
        at(u) == compiled.clauses[u[1]].placeholders[u[2]]
    IN  /\ \A u \in uses :
            /\ at(u) \in 1..Len(compiled.values)
            /\ compiled.values[at(u)] = compiled.clauses[u[1]].values[u[2]]
        /\ \A u, w \in uses : at(u) = at(w) => u = w
        /\ \A p \in 1..Len(compiled.values) : \E u \in uses : at(u) = p

\* C40: in the SQL compiled from any sequence and topic filter (any mix of
\* clauses on columns and on user_metadata), the placeholders are $1..$n
\* with no number used by two operands, and the i-th value bound is the
\* operand of the placeholder $i.
C40_PlaceholdersMatchValues ==
    (action = "topic_from_query_filter" /\ response.ok)
        => PlaceholdersRight(response.v)

\* The same for the filters whose user_metadata clauses, if any, are of one
\* map and are the last compiled.
PlaceholdersRightMetadataLast ==
    (/\ action = "topic_from_query_filter"
     /\ response.ok
     /\ \A i \in 1..(Len(query.v) - 1) :
            FilterFields[query.v[i].place].compiler = "JsonQueryCompiler"
                => query.v[i + 1].place = query.v[i].place)
        => PlaceholdersRight(response.v)

====
